---------------------------- MODULE Spec2Model ----------------------------
(***************************************************************************)
(* A model of the wanikani-api client: the request executor of             *)
(* src/wanikani-api/src/client/mod.rs (header injection, the single send,  *)
(* status dispatch, error classification, the rate-limit reset time), the  *)
(* endpoint methods that feed it, and the pagination walk of               *)
(* examples/fetch_subjects.rs.                                             *)
(*                                                                         *)
(* Conventions.  Option<T> is a sequence of length 0 (None) or 1 (Some).   *)
(* A header value is a sequence of bytes (0..255).  An i64 is a signed     *)
(* number [neg, mag]: mag is the sequence of its base-1000 digits          *)
(* ("limbs", 0..999), most significant first, without leading zeros (zero  *)
(* is <<0>>), so that the 64-bit range, the overflow of reset * 1000 and   *)
(* chrono's timestamp range are the real ones: 1500000000 is <<1,500,0,0>>.*)
(***************************************************************************)
EXTENDS Integers, Sequences, FiniteSets, TLC

(***************************************************************************)
(* Arithmetic on magnitudes (sequences of base-1000 limbs).                *)
(***************************************************************************)
RECURSIVE Strip(_)
Strip(d) ==
    IF d = <<>> THEN <<0>>
    ELSE IF Len(d) > 1 /\ Head(d) = 0 THEN Strip(Tail(d))
    ELSE d

Rev(s) == [i \in 1..Len(s) |-> s[Len(s) + 1 - i]]

\* a < b for magnitudes without leading zeros
MagLess(a, b) ==
    \/ Len(a) < Len(b)
    \/ /\ Len(a) = Len(b)
       /\ \E i \in 1..Len(a) :
            /\ a[i] < b[i]
            /\ \A j \in 1..(i - 1) : a[j] = b[j]

MagLeq(a, b) == ~MagLess(b, a)

\* the lowest limb of a little-endian magnitude (0 past its end), and the rest
Lo(a) == IF a = <<>> THEN 0 ELSE Head(a)
Hi(a) == IF a = <<>> THEN a ELSE Tail(a)

RECURSIVE MulLE(_, _, _)
MulLE(le, k, carry) ==
    IF le = <<>>
    THEN IF carry = 0 THEN <<>> ELSE <<carry % 1000>> \o MulLE(<<>>, k, carry \div 1000)
    ELSE <<(Head(le) * k + carry) % 1000>>
         \o MulLE(Tail(le), k, (Head(le) * k + carry) \div 1000)

\* magnitude times a natural k <= 1000
MagMul(a, k) == Strip(Rev(MulLE(Rev(a), k, 0)))

RECURSIVE AddLE(_, _, _)
AddLE(a, b, carry) ==
    IF a = <<>> /\ b = <<>>
    THEN IF carry = 0 THEN <<>> ELSE <<carry>>
    ELSE <<(Lo(a) + Lo(b) + carry) % 1000>>
         \o AddLE(Hi(a), Hi(b), (Lo(a) + Lo(b) + carry) \div 1000)

MagAdd(a, b) == Strip(Rev(AddLE(Rev(a), Rev(b), 0)))

RECURSIVE SubLE(_, _, _)
SubLE(a, b, borrow) ==
    IF a = <<>> THEN <<>>
    ELSE <<(Head(a) - Lo(b) - borrow + 1000) % 1000>>
         \o SubLE(Tail(a), Hi(b), IF Head(a) - Lo(b) - borrow < 0 THEN 1 ELSE 0)

\* a - b for a >= b
MagSub(a, b) == Strip(Rev(SubLE(Rev(a), Rev(b), 0)))

RECURSIVE DivBE(_, _, _)
DivBE(a, k, r) ==
    IF a = <<>> THEN <<>>
    ELSE <<(r * 1000 + Head(a)) \div k>>
         \o DivBE(Tail(a), k, (r * 1000 + Head(a)) % k)

\* floor(a / k) for a natural 0 < k <= 1000
MagDiv(a, k) == Strip(DivBE(a, k, 0))

RECURSIVE RemBE(_, _, _)
RemBE(a, k, r) ==
    IF a = <<>> THEN r ELSE RemBE(Tail(a), k, (r * 1000 + Head(a)) % k)

\* a mod k, an ordinary number below k
MagRem(a, k) == RemBE(a, k, 0)

\* a mod m for a < (k + 1) * m: a minus the multiple q * m of m just below it
MagMod(a, m, k) ==
    MagSub(a, MagMul(m, CHOOSE q \in 0..k :
                            /\ MagLeq(MagMul(m, q), a)
                            /\ MagLess(a, MagAdd(MagMul(m, q), m))))

\* a natural below 2^31 as a magnitude
FromNat(n) ==
    Strip(<<n \div 1000000000, (n \div 1000000) % 1000, (n \div 1000) % 1000, n % 1000>>)

(***************************************************************************)
(* Signed numbers: the values of Rust's i64 and of a timestamp's seconds.  *)
(***************************************************************************)
Zero == [neg |-> FALSE, mag |-> <<0>>]

Signed(neg, mag) == [neg |-> neg /\ Strip(mag) # <<0>>, mag |-> Strip(mag)]

\* a <= b for signed numbers
SLeq(a, b) ==
    IF a.neg /\ ~b.neg THEN TRUE
    ELSE IF ~a.neg /\ b.neg THEN FALSE
    ELSE IF a.neg THEN MagLeq(b.mag, a.mag)
    ELSE MagLeq(a.mag, b.mag)

\* the magnitudes of i64::MAX = 2^63 - 1 and of i64::MIN = -2^63, and 2^64
I64_MAX_MAG == <<9, 223, 372, 36, 854, 775, 807>>
I64_MIN_MAG == <<9, 223, 372, 36, 854, 775, 808>>
TWO_64 == <<18, 446, 744, 73, 709, 551, 616>>

InI64(v) ==
    IF v.neg THEN MagLeq(v.mag, I64_MIN_MAG) ELSE MagLeq(v.mag, I64_MAX_MAG)

\* the i64 congruent modulo 2^64 to the integer of sign neg and magnitude r < 2^64
WrapI64(neg, r) ==
    IF InI64(Signed(neg, r)) THEN Signed(neg, r)
    ELSE Signed(~neg, MagSub(TWO_64, r))

\* i64::wrapping_mul by a natural k <= 1000: the product modulo 2^64 as an i64
wrapping_mul(v, k) == WrapI64(v.neg, MagMod(MagMul(v.mag, k), TWO_64, k))

\* i64::checked_mul by a natural k <= 1000: None on overflow
checked_mul(v, k) ==
    IF InI64(Signed(v.neg, MagMul(v.mag, k)))
    THEN <<Signed(v.neg, MagMul(v.mag, k))>>
    ELSE <<>>

(***************************************************************************)
(* The state.                                                              *)
(***************************************************************************)
VARIABLES
    overflow_checks,  \* the build: TRUE panics on integer overflow (debug), FALSE wraps (release)
    self,             \* the WKClient: [base_url, token, version]
    pc,               \* the call in progress: "idle", "awaiting", "returned", "panicked"
    call,             \* the call in progress: [caller, T, req]
    wire,             \* the requests handed to send() by the call in progress
    net,              \* what send() gave the call: None, or Some failure or response
    outcome,          \* how the call ended: None, or Some(Return(result)) or Some(Panic(msg))
    now,              \* the clock, in seconds since the Unix epoch
    server,           \* the API server: its quota window, its subjects
    prog              \* the calling program: its position and its local variables

vars == <<overflow_checks, self, pc, call, wire, net, outcome, now, server, prog>>

(***************************************************************************)
(* Option and Result.                                                      *)
(***************************************************************************)
None == <<>>
Some(x) == <<x>>
IsSome(o) == o # <<>>
Unwrap(o) == o[1]

Ok(v) == [ok |-> TRUE, value |-> v]
Err(e) == [ok |-> FALSE, error |-> e]

\* what a function call comes to: it returns a value, or it panics
Return(v) == [panic |-> FALSE, value |-> v]
Panic(msg) == [panic |-> TRUE, msg |-> msg]

(***************************************************************************)
(* Constants of the library.                                               *)
(***************************************************************************)
API_VERSION == "20170710"
REVISION_HEADER == "Wanikani-Revision"
MILLIS_IN_SECOND == 1000
StatusOK == 200
TOO_MANY_REQUESTS == 429

\* a Url: its origin, its path segments, its query pairs
URL_BASE == [origin |-> "https://api.wanikani.com", path |-> <<"v2">>, query |-> <<>>]

(***************************************************************************)
(* The Ratelimit-Reset header: HeaderValue::to_str, i64::from_str and      *)
(* chrono's NaiveDateTime::from_timestamp_millis.                          *)
(***************************************************************************)
\* HeaderName: a header's name in lower case, as a HeaderMap keeps it
HeaderName(text) ==
    CASE text = "Wanikani-Revision" -> "wanikani-revision"
      [] text = "Ratelimit-Reset" -> "ratelimit-reset"
      [] OTHER -> text

\* HeaderMap::get: the first value stored under the name
HeaderGet(headers, name) ==
    IF \E i \in 1..Len(headers) : headers[i].name = HeaderName(name)
    THEN Some(headers[CHOOSE i \in 1..Len(headers) :
                        /\ headers[i].name = HeaderName(name)
                        /\ \A j \in 1..(i - 1) : headers[j].name # HeaderName(name)].value)
    ELSE None

\* HeaderValue::to_str: the text, when every byte is visible ASCII or a tab
to_str(bytes) ==
    IF \A i \in 1..Len(bytes) : bytes[i] \in 32..126 \/ bytes[i] = 9
    THEN Some(bytes) ELSE None

\* the decimal digits d[1..n] as a magnitude: limb j (from the right) holds digits 3j..3j+2
DigitAt(d, p) == IF p < Len(d) THEN d[Len(d) - p] ELSE 0
LimbsOf(d) ==
    Strip([i \in 1..((Len(d) + 2) \div 3) |->
             LET j == ((Len(d) + 2) \div 3) - i
             IN  DigitAt(d, 3 * j) + 10 * DigitAt(d, 3 * j + 1) + 100 * DigitAt(d, 3 * j + 2)])

\* <i64 as FromStr>::from_str: an optional sign, then one or more digits and nothing
\* else; a value outside the 64-bit range is an error
parse(text) ==
    LET signed == text # <<>> /\ text[1] \in {43, 45}
        digits == IF signed THEN Tail(text) ELSE text
        v == Signed(signed /\ text[1] = 45, LimbsOf([i \in 1..Len(digits) |-> digits[i] - 48]))
    IN  IF digits = <<>> \/ \E i \in 1..Len(digits) : digits[i] \notin 48..57
        THEN None
        ELSE IF InI64(v) THEN Some(v) ELSE None

\* the seconds chrono's NaiveDateTime can hold: -262144-01-01T00:00:00 to 262143-12-31T23:59:59
CHRONO_MIN_SECS == [neg |-> TRUE, mag |-> <<8, 334, 632, 937, 600>>]
CHRONO_MAX_SECS == [neg |-> FALSE, mag |-> <<8, 210, 298, 412, 799>>]

\* i64::div_euclid and i64::rem_euclid by a natural k <= 1000
div_euclid(v, k) ==
    IF ~v.neg \/ MagRem(v.mag, k) = 0
    THEN Signed(v.neg, MagDiv(v.mag, k))
    ELSE Signed(TRUE, MagAdd(MagDiv(v.mag, k), <<1>>))
rem_euclid(v, k) ==
    IF ~v.neg \/ MagRem(v.mag, k) = 0 THEN MagRem(v.mag, k) ELSE k - MagRem(v.mag, k)

\* a Timestamp: whole seconds since the epoch and the milliseconds within the second
Timestamp(secs, millis) == [secs |-> secs, millis |-> millis]

\* NaiveDateTime::from_timestamp_millis: None outside the representable range
from_timestamp_millis(millis) ==
    LET secs == div_euclid(millis, 1000)
    IN  IF SLeq(CHRONO_MIN_SECS, secs) /\ SLeq(secs, CHRONO_MAX_SECS)
        THEN Some(Timestamp(secs, rem_euclid(millis, 1000)))
        ELSE None

\* reset * MILLIS_IN_SECOND on i64: a panic in a build with overflow checks, wrapped otherwise
MulI64(v, k) ==
    LET product == checked_mul(v, k)
    IN  IF IsSome(product) THEN Return(Unwrap(product))
        ELSE IF overflow_checks THEN Panic("attempt to multiply with overflow")
        ELSE Return(wrapping_mul(v, k))

(***************************************************************************)
(* rate_limit_reset: the reset time of a 429 response.                     *)
(***************************************************************************)
\* the timestamp of reset milliseconds: the multiplication forgotten
ResetTimestamp_no_millis(reset) ==
    LET timestamp == from_timestamp_millis(reset)
    IN  IF timestamp = None THEN Panic("Valid range")
        ELSE Return(Unwrap(timestamp))

\* the timestamp of reset seconds, reset being an i64: the multiplication by
\* MILLIS_IN_SECOND and from_timestamp_millis(..).expect("Valid range")
ResetTimestamp(reset) ==
    LET millis == MulI64(reset, MILLIS_IN_SECOND)
        timestamp == from_timestamp_millis(millis.value)
    IN  IF millis.panic THEN millis
        ELSE IF timestamp = None THEN Panic("Valid range")
        ELSE Return(Unwrap(timestamp))

\* rate_limit_reset with parse().unwrap() in place of unwrap_or_else
rate_limit_reset_unwrap(this, headers) ==
    LET header == HeaderGet(headers, "Ratelimit-Reset")
        reset == parse(Unwrap(header))
    IN  IF header = None THEN ResetTimestamp(Zero)
        ELSE IF to_str(Unwrap(header)) = None THEN Panic("Header should be string")
        ELSE IF reset = None THEN Panic("called Result::unwrap() on an Err value")
        ELSE ResetTimestamp(Unwrap(reset))

rate_limit_reset(this, headers) ==
    LET header == HeaderGet(headers, "Ratelimit-Reset")
        reset == parse(Unwrap(header))
    IN  IF header = None THEN ResetTimestamp(Zero)
        ELSE IF to_str(Unwrap(header)) = None THEN Panic("Header should be string")
        ELSE IF reset = None THEN ResetTimestamp(Zero)
        ELSE ResetTimestamp(Unwrap(reset))

(***************************************************************************)
(* The error taxonomy (lib.rs, enum Error).                                *)
(***************************************************************************)
WaniKaniError(error) == [variant |-> "WaniKaniError", error |-> error]
ClientError(source) == [variant |-> "Client", source |-> source]
RateLimit(error, reset_time) ==
    [variant |-> "RateLimit", error |-> error, reset_time |-> reset_time]

(***************************************************************************)
(* Decoding a response body (Response::json::<T>).  A body is empty text,  *)
(* malformed text, or a JSON object; the envelope's fields are the fields  *)
(* of a record, and a payload (the `data` of a resource) is given by the   *)
(* set of its keys that hold a value: serde keeps the known keys and fails *)
(* on a required key that is missing or null.  A `data` member is a JSON   *)
(* object (a payload) or a JSON array (the items of a collection).  A type *)
(* T is a sequence of names: <<"Summary">>, <<"Collection", "Subject">>.   *)
(***************************************************************************)
\* a JSON object is its keys, and which of them hold null
JsonObjectWith(keys, nulls) == [kind |-> "object", keys |-> keys, nulls |-> nulls]
JsonObject(keys) == JsonObjectWith(keys, {})
JsonArray(items) == [kind |-> "array", items |-> items]

SubjectCommonKeys ==
    {"auxiliary_meanings", "created_at", "document_url", "lesson_position", "level",
     "meaning_mnemonic", "meanings", "slug", "spaced_repetition_system_id"}

\* the required keys of each payload type, and its optional ones
RequiredKeys(E) ==
    CASE E = "Radical" ->
            SubjectCommonKeys \cup {"amalgamation_subject_ids", "character_images"}
      [] E = "Kanji" ->
            SubjectCommonKeys \cup
            {"amalgamation_subject_ids", "characters", "component_subject_ids",
             "reading_mnemonic", "readings", "visually_similar_subject_ids"}
      [] E = "Vocabulary" ->
            SubjectCommonKeys \cup
            {"characters", "component_subject_ids", "context_sentences",
             "parts_of_speech", "pronunciation_audios", "readings", "reading_mnemonic"}
      [] E = "KanaVocabulary" ->
            SubjectCommonKeys \cup
            {"characters", "context_sentences", "parts_of_speech", "pronunciation_audios"}
      [] E = "SummaryData" -> {"lessons", "reviews"}
      [] E = "Assignment" ->
            {"created_at", "hidden", "srs_stage", "subject_id", "subject_type"}
      [] E = "LevelProgression" -> {"created_at", "level"}
      [] E = "Reset" -> {"created_at", "original_level", "target_level"}
      [] E = "ReviewStatistic" ->
            {"created_at", "hidden", "meaning_correct", "meaning_current_streak",
             "meaning_incorrect", "meaning_max_streak", "percentage_correct",
             "reading_correct", "reading_current_streak", "reading_incorrect",
             "reading_max_streak", "subject_id", "subject_type"}
      [] E = "StudyMaterial" ->
            {"created_at", "hidden", "meaning_synonyms", "subject_id", "subject_type"}
      [] E = "UserData" ->
            {"id", "level", "preferences", "profile_url", "started_at", "subscription",
             "username"}
      [] E = "VoiceActorData" -> {"created_at", "name", "gender", "description"}
      [] E = "VoiceActor" -> {"id", "object", "url", "data"}

OptionalKeys(E) ==
    CASE E = "Radical" -> {"hidden_at", "characters"}
      [] E = "Kanji" -> {"hidden_at", "meaning_hint", "reading_hint"}
      [] E = "Vocabulary" -> {"hidden_at"}
      [] E = "KanaVocabulary" -> {"hidden_at"}
      [] E = "SummaryData" -> {"next_reviews_at"}
      [] E = "Assignment" ->
            {"available_at", "burned_at", "passed_at", "resurrected_at", "started_at",
             "unlocked_at"}
      [] E = "LevelProgression" ->
            {"abandoned_at", "completed_at", "passed_at", "started_at", "unlocked_at"}
      [] E = "Reset" -> {"confirmed_at"}
      [] E = "ReviewStatistic" -> {}
      [] E = "StudyMaterial" -> {"meaning_note", "reading_note"}
      [] E = "UserData" -> {"current_vacation_started_at"}
      [] E = "VoiceActorData" -> {}
      [] E = "VoiceActor" -> {"data_updated_at"}

\* a derived struct: Some of the kept keys, or None
DeserializeStruct_deny_unknown_fields(E, keys) ==
    IF RequiredKeys(E) \subseteq keys /\ keys \subseteq RequiredKeys(E) \cup OptionalKeys(E)
    THEN Some([variant |-> E, keys |-> keys])
    ELSE None

DeserializeStruct(E, keys) ==
    IF RequiredKeys(E) \subseteq keys
    THEN Some([variant |-> E, keys |-> keys \cap (RequiredKeys(E) \cup OptionalKeys(E))])
    ELSE None

SubjectVariants_kana_first == <<"KanaVocabulary", "Vocabulary", "Kanji", "Radical">>

\* #[serde(untagged)] enum Subject: the first variant that deserializes
SubjectVariants == <<"Radical", "Kanji", "Vocabulary", "KanaVocabulary">>

DeserializeKeys_last_match(E, keys) ==
    IF E = "Subject"
    THEN IF \E i \in 1..Len(SubjectVariants) :
                IsSome(DeserializeStruct(SubjectVariants[i], keys))
         THEN DeserializeStruct(
                  SubjectVariants[CHOOSE i \in 1..Len(SubjectVariants) :
                      /\ IsSome(DeserializeStruct(SubjectVariants[i], keys))
                      /\ \A j \in (i + 1)..Len(SubjectVariants) :
                            ~IsSome(DeserializeStruct(SubjectVariants[j], keys))],
                  keys)
         ELSE None
    ELSE DeserializeStruct(E, keys)

DeserializeKeys(E, keys) ==
    IF E = "Subject"
    THEN IF \E i \in 1..Len(SubjectVariants) :
                IsSome(DeserializeStruct(SubjectVariants[i], keys))
         THEN DeserializeStruct(
                  SubjectVariants[CHOOSE i \in 1..Len(SubjectVariants) :
                      /\ IsSome(DeserializeStruct(SubjectVariants[i], keys))
                      /\ \A j \in 1..(i - 1) :
                            ~IsSome(DeserializeStruct(SubjectVariants[j], keys))],
                  keys)
         ELSE None
    ELSE DeserializeStruct(E, keys)

\* a payload type wants a JSON object, the unit type () wants null; a key that
\* holds null gives None to an Option field and no value to any other field
DeserializePayload_null_is_a_value(E, data) ==
    IF data.kind = "object" THEN DeserializeKeys(E, data.keys) ELSE None

DeserializePayload(E, data) ==
    IF E = "()"
    THEN IF data.kind = "null" THEN Some([variant |-> "()", keys |-> {}]) ELSE None
    ELSE IF data.kind = "object" THEN DeserializeKeys(E, data.keys \ data.nulls) ELSE None

ResourceTypes ==
    {"collection", "level_progression", "reset", "review_statistic", "study_material",
     "radical", "kanji", "vocabulary", "kana_vocabulary", "report", "user", "voice_actor"}

\* the flattened ResourceCommon: object and url are required
HasCommon(j) ==
    /\ {"object", "url"} \subseteq DOMAIN j
    /\ j.object \in ResourceTypes

Common(j) ==
    [object |-> j.object, url |-> j.url,
     data_updated_at |-> IF "data_updated_at" \in DOMAIN j THEN j.data_updated_at ELSE None]

\* Resource<E>
FitsResource_checking_tag(E, j) ==
    /\ "id" \in DOMAIN j
    /\ HasCommon(j)
    /\ "data" \in DOMAIN j
    /\ IsSome(DeserializePayload(E, j.data))
    /\ Unwrap(DeserializePayload(E, j.data)).variant = "Radical" => j.object = "radical"
    /\ Unwrap(DeserializePayload(E, j.data)).variant = "Kanji" => j.object = "kanji"

FitsResource(E, j) ==
    /\ "id" \in DOMAIN j
    /\ HasCommon(j)
    /\ "data" \in DOMAIN j
    /\ IsSome(DeserializePayload(E, j.data))

DecodeResource(E, j) ==
    [id |-> j.id, common |-> Common(j), data |-> Unwrap(DeserializePayload(E, j.data))]

Fits(T, j) ==
    CASE T[1] = "WanikaniError" -> "code" \in DOMAIN j
      [] T[1] = "Summary" ->
            /\ HasCommon(j)
            /\ "data" \in DOMAIN j
            /\ IsSome(DeserializePayload("SummaryData", j.data))
      [] T[1] = "Resource" -> FitsResource(T[2], j)
      [] T[1] = "VoiceActor" -> FitsResource("VoiceActorData", j)
      [] T[1] = "User" ->
            /\ HasCommon(j)
            /\ "data" \in DOMAIN j
            /\ IsSome(DeserializePayload("UserData", j.data))
      [] T[1] = "Collection" ->
            /\ HasCommon(j)
            /\ {"pages", "total_count", "data"} \subseteq DOMAIN j
            /\ "per_page" \in DOMAIN j.pages
            /\ j.data.kind = "array"
            /\ \A i \in 1..Len(j.data.items) : FitsResource(T[2], j.data.items[i])

Decode(T, j) ==
    CASE T[1] = "WanikaniError" ->
            [code |-> j.code, error |-> IF "error" \in DOMAIN j THEN j.error ELSE None]
      [] T[1] = "Summary" ->
            [common |-> Common(j), data |-> Unwrap(DeserializePayload("SummaryData", j.data))]
      [] T[1] = "Resource" -> DecodeResource(T[2], j)
      [] T[1] = "VoiceActor" -> DecodeResource("VoiceActorData", j)
      [] T[1] = "User" ->
            [common |-> Common(j), data |-> Unwrap(DeserializePayload("UserData", j.data))]
      [] T[1] = "Collection" ->
            [common |-> Common(j),
             pages |-> [next_url |-> IF "next_url" \in DOMAIN j.pages
                                     THEN j.pages.next_url ELSE None,
                        previous_url |-> IF "previous_url" \in DOMAIN j.pages
                                         THEN j.pages.previous_url ELSE None,
                        per_page |-> j.pages.per_page],
             total_count |-> j.total_count,
             data |-> [i \in 1..Len(j.data.items) |->
                          DecodeResource(T[2], j.data.items[i])]]

\* Response::json::<T>(): the value, or the reqwest decode error
json(T, body) ==
    IF body.text = "json" /\ Fits(T, body.json)
    THEN Ok(Decode(T, body.json))
    ELSE Err([kind |-> "decode", text |-> body.text])

(***************************************************************************)
(* The request executor (client/mod.rs).                                   *)
(***************************************************************************)
\* WKClient::new
new(token) == [base_url |-> URL_BASE, token |-> token, version |-> API_VERSION]

\* RequestBuilder::header: one more header on the request
WithHeader(req, name, value) ==
    [req EXCEPT !.headers = Append(@, [name |-> HeaderName(name), value |-> value])]

\* add_required_headers without the revision header
add_required_headers_no_revision(this, req) ==
    WithHeader(req, "authorization", <<"Bearer", this.token>>)

add_required_headers(this, req) ==
    WithHeader(WithHeader(req, "authorization", <<"Bearer", this.token>>),
               REVISION_HEADER, <<this.version>>)

\* handle_error taking every client error (4xx) for a rate limit
handle_error_any_client_error(this, response) ==
    LET error == json(<<"WanikaniError">>, response.body)
        reset_time == rate_limit_reset(this, response.headers)
    IN  IF error.ok
        THEN IF response.status \in 400..499
             THEN IF reset_time.panic THEN reset_time
                  ELSE Return(RateLimit(error.value, reset_time.value))
             ELSE Return(WaniKaniError(error.value))
        ELSE Return(ClientError(error.error))

\* handle_error computing the reset time of a 429 before it decodes the body
handle_error_reset_first(this, response) ==
    LET error == json(<<"WanikaniError">>, response.body)
        reset_time == rate_limit_reset(this, response.headers)
    IN  IF response.status = TOO_MANY_REQUESTS /\ reset_time.panic THEN reset_time
        ELSE IF error.ok
        THEN IF response.status = TOO_MANY_REQUESTS
             THEN Return(RateLimit(error.value, reset_time.value))
             ELSE Return(WaniKaniError(error.value))
        ELSE Return(ClientError(error.error))

\* Error::RateLimit { error, reset_time: self.rate_limit_reset(&headers) }: the
\* panic of rate_limit_reset, when it panics, in place of the value
RateLimitWith(error, reset_time) ==
    IF reset_time.panic THEN reset_time
    ELSE Return(RateLimit(error, reset_time.value))

handle_error(this, response) ==
    LET error == json(<<"WanikaniError">>, response.body)
    IN  IF error.ok
        THEN IF response.status = TOO_MANY_REQUESTS
             THEN RateLimitWith(error.value, rate_limit_reset(this, response.headers))
             ELSE Return(WaniKaniError(error.value))
        ELSE Return(ClientError(error.error))

\* do_request keeping the token from every origin but the API's own
do_request_send_own_origin_only(this, caller, req) ==
    IF req.url.origin = this.base_url.origin
    THEN add_required_headers(this, req)
    ELSE WithHeader(req, REVISION_HEADER, <<this.version>>)

\* do_request up to the send: the request handed to the transport
do_request_send(this, caller, req) == add_required_headers(this, req)

\* Ok(resp.json().await?) taking a collection with a total_count of 0 for an error
OkJson_nothing_found(decoded) ==
    IF decoded.ok /\ ("total_count" \in DOMAIN decoded.value => decoded.value.total_count > 0)
    THEN Return(Ok(decoded.value))
    ELSE Return(Err(ClientError([kind |-> "decode", text |-> "json"])))

\* Ok(resp.json().await?): the decoded value, or the decode error as Error::Client
OkJson(decoded) ==
    IF decoded.ok THEN Return(Ok(decoded.value))
    ELSE Return(Err(ClientError(decoded.error)))

\* Err(self.handle_error(resp).await): the panic of handle_error in place of the value
ErrWith(error) ==
    IF error.panic THEN error ELSE Return(Err(error.value))

\* do_request from the send on: `answer` is what send() gave, a transport failure
\* [failed |-> TRUE, error] or a response [failed |-> FALSE, response]
do_request(this, caller, T, answer) ==
    IF answer.failed THEN Return(Err(ClientError(answer.error)))
    ELSE IF answer.response.status = StatusOK
    THEN OkJson(json(T, answer.response.body))
    ELSE ErrWith(handle_error(this, answer.response))

(***************************************************************************)
(* Building a request: Url, the filter of get_subjects, the endpoint       *)
(* methods.                                                                *)
(***************************************************************************)
\* Client::get: a request with no header and no body yet
Request(method, url) == [method |-> method, url |-> url, headers |-> <<>>, body |-> None]

\* Url::path_segments_mut().push
push(url, segment) == [url EXCEPT !.path = Append(@, segment)]

\* Url::query_pairs_mut().append_pair: the value is the text, as a sequence of pieces
append_pair(url, key, value) ==
    [url EXCEPT !.query = Append(@, [key |-> key, value |-> Some(value)])]

join_reversed(list, sep) ==
    [i \in 1..(2 * Len(list) - 1) |->
        IF i % 2 = 1 THEN list[Len(list) + 1 - (i + 1) \div 2] ELSE sep]

\* [String]::join: the pieces with the separator between them
RECURSIVE join(_, _)
join(list, sep) ==
    IF list = <<>> THEN <<>>
    ELSE IF Len(list) = 1 THEN <<Head(list)>>
    ELSE <<Head(list), sep>> \o join(Tail(list), sep)

\* ToString::to_string of each element
Strings(list) == [i \in 1..Len(list) |-> ToString(list[i])]

BoolString_numeric(b) == IF b THEN "1" ELSE "0"

\* bool::to_string
BoolString(b) == IF b THEN "true" ELSE "false"

\* enum SubjectType
SubjectType == {"Radical", "Kanji", "Vocabulary", "KanaVocabulary"}

\* <SubjectType as Display>::fmt, and to_string of each element of a list of them
SubjectType_to_string(t) ==
    CASE t = "KanaVocabulary" -> "kana_vocabulary"
      [] t = "Kanji" -> "kanji"
      [] t = "Radical" -> "radical"
      [] t = "Vocabulary" -> "vocabulary"
TypeStrings(list) == [i \in 1..Len(list) |-> SubjectType_to_string(list[i])]

\* the instants named in this model
Epoch == [secs |-> Zero, millis |-> 0]
Instant1500000000 == [secs |-> Signed(FALSE, <<1, 500, 0, 0>>), millis |-> 0]

\* DateTime<Utc>::to_rfc3339, on the instants named above
to_rfc3339(ts) ==
    CASE ts = Epoch -> "1970-01-01T00:00:00+00:00"
      [] ts = Instant1500000000 -> "2017-07-14T02:40:00+00:00"

AppendIfSome_always(url, key, field, text) == append_pair(url, key, text)
AppendIfSome_unless_empty(url, key, field, text) ==
    IF IsSome(field) /\ text # <<>> THEN append_pair(url, key, text) ELSE url

\* one `if let Some(..) = field { query.append_pair(key, text) }`
AppendIfSome(url, key, field, text) ==
    IF IsSome(field) THEN append_pair(url, key, text) ELSE url

\* <SubjectFilter as Filter>::apply_filters
SubjectFilter_apply_filters(f, url) ==
    LET u1 == AppendIfSome(url, "ids", f.ids,
                           IF IsSome(f.ids) THEN join(Strings(Unwrap(f.ids)), ",") ELSE <<>>)
        u2 == AppendIfSome(u1, "types", f.types,
                           IF IsSome(f.types)
                           THEN join(TypeStrings(Unwrap(f.types)), ",") ELSE <<>>)
        u3 == AppendIfSome(u2, "slugs", f.slugs,
                           IF IsSome(f.slugs) THEN join(Unwrap(f.slugs), ",") ELSE <<>>)
        u4 == AppendIfSome(u3, "levels", f.levels,
                           IF IsSome(f.levels) THEN join(Strings(Unwrap(f.levels)), ",") ELSE <<>>)
        u5 == AppendIfSome(u4, "hidden", f.hidden,
                           IF IsSome(f.hidden) THEN <<BoolString(Unwrap(f.hidden))>> ELSE <<>>)
    IN  AppendIfSome(u5, "updated_after", f.updated_after,
                     IF IsSome(f.updated_after)
                     THEN <<to_rfc3339(Unwrap(f.updated_after))>> ELSE <<>>)

\* SubjectFilter::default()
SubjectFilter_default ==
    [ids |-> None, types |-> None, slugs |-> None, levels |-> None,
     hidden |-> None, updated_after |-> None]

append_key_only_as_true(url, key) == append_pair(url, key, <<"true">>)

\* Url::query_pairs_mut().append_key_only: the bare key, with no "=" and no value
append_key_only(url, key) ==
    [url EXCEPT !.query = Append(@, [key |-> key, value |-> None])]

\* one `if flag { query.append_key_only(key) }`
AppendIfTrue(url, key, flag) ==
    IF flag THEN append_key_only(url, key) ELSE url

\* the text the code builds for a field that is set: the numbers or the subject
\* types, each to_string and joined by ","; a bool; a number; a timestamp
NumbersText(field) ==
    IF IsSome(field) THEN join(Strings(Unwrap(field)), ",") ELSE <<>>
TypesText(field) ==
    IF IsSome(field) THEN join(TypeStrings(Unwrap(field)), ",") ELSE <<>>
BoolText(field) ==
    IF IsSome(field) THEN <<BoolString(Unwrap(field))>> ELSE <<>>
NumberText(field) ==
    IF IsSome(field) THEN <<ToString(Unwrap(field))>> ELSE <<>>
TimeText(field) ==
    IF IsSome(field) THEN <<to_rfc3339(Unwrap(field))>> ELSE <<>>

\* <IdFilter as Filter>::apply_filters
IdFilter_apply_filters(f, url) ==
    LET u1 == AppendIfSome(url, "ids", f.ids, NumbersText(f.ids))
    IN  AppendIfSome(u1, "updated_after", f.updated_after, TimeText(f.updated_after))

\* IdFilter::default()
IdFilter_default == [ids |-> None, updated_after |-> None]

\* <StudyMaterialFilter as Filter>::apply_filters
StudyMaterialFilter_apply_filters(f, url) ==
    LET u1 == AppendIfSome(url, "ids", f.ids, NumbersText(f.ids))
        u2 == AppendIfSome(u1, "subject_ids", f.subject_ids, NumbersText(f.subject_ids))
        u3 == AppendIfSome(u2, "subject_types", f.subject_types, TypesText(f.subject_types))
        u4 == AppendIfSome(u3, "hidden", f.hidden, BoolText(f.hidden))
    IN  AppendIfSome(u4, "updated_after", f.updated_after, TimeText(f.updated_after))

\* StudyMaterialFilter::default()
StudyMaterialFilter_default ==
    [hidden |-> None, ids |-> None, subject_ids |-> None, subject_types |-> None,
     updated_after |-> None]

\* <ReviewStatisticFilter as Filter>::apply_filters
ReviewStatisticFilter_apply_filters(f, url) ==
    LET u1 == AppendIfSome(url, "ids", f.ids, NumbersText(f.ids))
        u2 == AppendIfSome(u1, "subject_ids", f.subject_ids, NumbersText(f.subject_ids))
        u3 == AppendIfSome(u2, "subject_types", f.subject_types, TypesText(f.subject_types))
        u4 == AppendIfSome(u3, "hidden", f.hidden, BoolText(f.hidden))
        u5 == AppendIfSome(u4, "updated_after", f.updated_after, TimeText(f.updated_after))
        u6 == AppendIfSome(u5, "percentages_greater_than", f.percentages_greater_than,
                           NumberText(f.percentages_greater_than))
    IN  AppendIfSome(u6, "percentages_less_than", f.percentages_less_than,
                     NumberText(f.percentages_less_than))

\* ReviewStatisticFilter::default()
ReviewStatisticFilter_default ==
    [hidden |-> None, ids |-> None, percentages_greater_than |-> None,
     percentages_less_than |-> None, subject_ids |-> None, subject_types |-> None,
     updated_after |-> None]

\* <AssignmentFilter as Filter>::apply_filters
AssignmentFilter_apply_filters(f, url) ==
    LET u1 == AppendIfSome(url, "available_after", f.available_after,
                           TimeText(f.available_after))
        u2 == AppendIfSome(u1, "available_before", f.available_before,
                           TimeText(f.available_before))
        u3 == AppendIfSome(u2, "burned", f.burned, BoolText(f.burned))
        u4 == AppendIfSome(u3, "hidden", f.hidden, BoolText(f.hidden))
        u5 == AppendIfSome(u4, "ids", f.ids, NumbersText(f.ids))
        u6 == AppendIfTrue(u5, "immediately_available_for_lessons",
                           f.immediately_available_for_lessons)
        u7 == AppendIfTrue(u6, "immediately_available_for_review",
                           f.immediately_available_for_review)
        u8 == AppendIfTrue(u7, "in_review", f.in_review)
        u9 == AppendIfSome(u8, "levels", f.levels, NumbersText(f.levels))
        u10 == AppendIfSome(u9, "srs_stages", f.srs_stages, NumbersText(f.srs_stages))
        u11 == AppendIfSome(u10, "started", f.started, BoolText(f.started))
        u12 == AppendIfSome(u11, "subject_ids", f.subject_ids, NumbersText(f.subject_ids))
        u13 == AppendIfSome(u12, "subject_types", f.subject_types,
                            TypesText(f.subject_types))
        u14 == AppendIfSome(u13, "unlocked", f.unlocked, BoolText(f.unlocked))
    IN  AppendIfSome(u14, "updated_after", f.updated_after, TimeText(f.updated_after))

\* AssignmentFilter::default()
AssignmentFilter_default ==
    [available_after |-> None, available_before |-> None, burned |-> None,
     hidden |-> None, ids |-> None, immediately_available_for_lessons |-> FALSE,
     immediately_available_for_review |-> FALSE, in_review |-> FALSE,
     levels |-> None, srs_stages |-> None, started |-> None, subject_ids |-> None,
     subject_types |-> None, unlocked |-> None, updated_after |-> None]

get_summary(this) == Request("GET", push(this.base_url, "summary"))

get_subjects(this, filters) ==
    Request("GET", SubjectFilter_apply_filters(filters, push(this.base_url, "subjects")))

get_specific_subject(this, id) ==
    Request("GET", push(push(this.base_url, "subjects"), ToString(id)))

\* get_resource_by_url asking the API's own origin for the path of the URL
get_resource_by_url_rebased(this, url) ==
    Request("GET", [this.base_url EXCEPT !.path = url.path])

get_resource_by_url(this, url) == Request("GET", url)

(***************************************************************************)
(* The inputs: what callers pass and what the transport can answer.        *)
(***************************************************************************)
MaxId == 2

Tokens == {"MY_TOKEN", "other-token"}

\* the filter of examples/fetch_subjects.rs and three more
SubjectFilters ==
    {SubjectFilter_default,
     [SubjectFilter_default EXCEPT !.types = Some(<<"Radical", "Kanji">>)],
     [SubjectFilter_default EXCEPT !.ids = Some(<<1, 2>>), !.hidden = Some(FALSE)],
     [SubjectFilter_default EXCEPT !.levels = Some(<<5000>>),
                                   !.updated_after = Some(Instant1500000000)]}

\* the payload of each subject type as the API sends it: every key of the type
PayloadKeys(E) == RequiredKeys(E) \cup OptionalKeys(E)

ResourceJson(id, object, E) ==
    [id |-> id, object |-> object,
     url |-> push(push(URL_BASE, "subjects"), ToString(id)),
     data_updated_at |-> Some(Instant1500000000), data |-> JsonObject(PayloadKeys(E))]

CollectionJson(url, next_url, per_page, total_count, data) ==
    [object |-> "collection", url |-> url, data_updated_at |-> None,
     pages |-> [next_url |-> next_url, previous_url |-> None, per_page |-> per_page],
     total_count |-> total_count, data |-> JsonArray(data)]

SummaryJson ==
    [object |-> "report", url |-> push(URL_BASE, "summary"),
     data_updated_at |-> Some(Instant1500000000), data |-> JsonObject(PayloadKeys("SummaryData"))]

ErrorJson(code, error) == [code |-> code, error |-> error]

JsonBody(j) == [text |-> "json", json |-> j]

\* a page of another origin, as a server may name it in next_url
ForeignUrl == [origin |-> "https://example.org", path |-> <<"v2", "subjects">>,
               query |-> <<[key |-> "page_after_id", value |-> Some(<<"1">>)]>>]

Urls == {push(URL_BASE, "summary"), push(URL_BASE, "subjects"), ForeignUrl}

RateLimitBody == JsonBody(ErrorJson(429, Some("Rate limit exceeded")))

Bodies ==
    {[text |-> "empty"], [text |-> "malformed"],
     RateLimitBody,
     JsonBody(ErrorJson(401, None)),
     JsonBody([code |-> 500]),
     JsonBody(SummaryJson),
     JsonBody(ResourceJson(1, "kanji", "Kanji")),
     JsonBody(CollectionJson(push(URL_BASE, "subjects"), None, 1000, 1,
                             <<ResourceJson(1, "radical", "Radical")>>)),
     \* a filter that matches nothing, and a cursor past the last of two subjects
     JsonBody(CollectionJson(push(URL_BASE, "subjects"), None, 1000, 0, <<>>)),
     JsonBody(CollectionJson(ForeignUrl, None, 1000, 2, <<>>))}

Statuses == {StatusOK, 201, 204, 401, TOO_MANY_REQUESTS, 500}

\* the decimal digits of a header, as bytes
Digits(d) == [i \in 1..Len(d) |-> 48 + d[i]]

\* values of the Ratelimit-Reset header
ResetHeaders ==
    {Digits(<<1,5,0,0,0,0,0,0,0,0>>),                    \* 1500000000
     Digits(<<0>>),                                      \* 0
     Digits(<<0,0,7>>),                                  \* 007
     <<43>> \o Digits(<<7>>),                            \* +7
     <<45>> \o Digits(<<5>>),                            \* -5
     Digits(<<8,2,1,0,2,9,8,4,1,2,7,9,9>>),              \* 8210298412799, chrono's last second
     Digits(<<8,2,1,0,2,9,8,4,1,2,8,0,0>>),              \* 8210298412800, one past it
     <<45>> \o Digits(<<9,0,0,0,0,0,0,0,0,0,0,0,0,0,0,0>>),  \* -9000000000000000
     Digits(<<9,2,2,3,3,7,2,0,3,6,8,5,4,7,7,5,8,0,7>>),  \* i64::MAX: times 1000 overflows
     Digits(<<1,8,4,4,6,7,4,4,0,7,3,7,0,9,5,5,3>>),      \* times 1000 is 2^64 + 1384
     Digits(<<9,9,9,9,9,9,9,9,9,9,9,9,9,9,9,9,9,9,9,9>>),\* 20 nines: no i64
     <<>>,                                               \* the empty text
     <<97, 98, 99>>,                                     \* abc
     <<49, 46, 53>>,                                     \* 1.5
     <<32, 49, 50>>,                                     \* " 12"
     <<255>>,                                            \* a byte that is no ASCII
     <<49, 50, 233>>}                                    \* 12 and a Latin-1 byte

ResetHeader(value) == <<[name |-> "ratelimit-reset", value |-> value]>>

Response(status, headers, body) == [status |-> status, headers |-> headers, body |-> body]

\* every status with every body, without the header and with it; and every value of
\* the header on a 429 response, with an error body and with none
Responses ==
    {Response(s, h, b) :
        s \in Statuses, h \in {<<>>, ResetHeader(Digits(<<1,5,0,0,0,0,0,0,0,0>>))}, b \in Bodies}
    \cup
    {Response(TOO_MANY_REQUESTS, ResetHeader(v), b) :
        v \in ResetHeaders, b \in {RateLimitBody, [text |-> "malformed"]}}

\* the ways send() fails
SendErrors == {[kind |-> "connect"], [kind |-> "timeout"]}

(***************************************************************************)
(* Calls.  A call runs its endpoint method and do_request up to the send   *)
(* in one step (the request is then with the transport), and from the      *)
(* answer of send() to its end in a second step.                           *)
(***************************************************************************)
NoCall == [caller |-> "", T |-> <<>>, req |-> Request("", URL_BASE)]

Begin_keeping_the_url(caller, T, req) ==
    /\ pc \in {"idle", "returned"}
    /\ call' = [caller |-> caller, T |-> T, req |-> req]
    /\ wire' = <<do_request_send(self, caller, req)>>
    /\ pc' = "awaiting"
    /\ net' = None
    /\ outcome' = None
    /\ self' = [self EXCEPT !.base_url = req.url]
    /\ UNCHANGED <<overflow_checks, now>>

Begin(caller, T, req) ==
    /\ pc \in {"idle", "returned"}
    /\ call' = [caller |-> caller, T |-> T, req |-> req]
    /\ wire' = <<do_request_send(self, caller, req)>>
    /\ pc' = "awaiting"
    /\ net' = None
    /\ outcome' = None
    /\ UNCHANGED <<overflow_checks, self, now>>

\* the call ends: it returns, or the thread panics
End(ended) ==
    /\ outcome' = Some(ended)
    /\ pc' = IF ended.panic THEN "panicked" ELSE "returned"

Finish(answer) ==
    /\ pc = "awaiting"
    /\ net' = Some(answer)
    /\ End(do_request(self, call.caller, call.T, answer))
    /\ UNCHANGED <<overflow_checks, self, call, wire, now>>

Failure(error) == [failed |-> TRUE, error |-> error]
Answer(response) == [failed |-> FALSE, response |-> response]

\* the types a caller may ask get_specific_subject and get_resource_by_url for
SubjectTypes == {"Subject", "Radical", "Kanji"}
UrlTypes == {<<"Summary">>, <<"Collection", "Subject">>, <<"Resource", "Subject">>}

\* no server is modelled, and the caller keeps the URL it gave get_resource_by_url
NoServer == [kind |-> "any"]
NoProg == [name |-> "any", given |-> None]

GetSummary ==
    /\ Begin("get_summary", <<"Summary">>, get_summary(self))
    /\ prog' = NoProg
    /\ UNCHANGED server

GetSubjects(filters) ==
    /\ Begin("get_subjects", <<"Collection", "Subject">>, get_subjects(self, filters))
    /\ prog' = NoProg
    /\ UNCHANGED server

GetSpecificSubject(id, E) ==
    /\ Begin("get_specific_subject", <<"Resource", E>>, get_specific_subject(self, id))
    /\ prog' = NoProg
    /\ UNCHANGED server

GetResourceByUrl(url, T) ==
    /\ Begin("get_resource_by_url", T, get_resource_by_url(self, url))
    /\ prog' = [NoProg EXCEPT !.given = Some(url)]
    /\ UNCHANGED server

\* send() fails: no response
SendFails(error) ==
    /\ Finish(Failure(error))
    /\ UNCHANGED <<server, prog>>

\* send() gives a response: any status, any headers, any body
Respond(response) ==
    /\ Finish(Answer(response))
    /\ UNCHANGED <<server, prog>>

Init ==
    /\ overflow_checks \in BOOLEAN
    /\ self \in {new(t) : t \in Tokens}
    /\ pc = "idle"
    /\ call = NoCall
    /\ wire = <<>>
    /\ net = None
    /\ outcome = None
    /\ now = 0
    /\ server = NoServer
    /\ prog = NoProg

Next ==
    \/ GetSummary
    \/ \E f \in SubjectFilters : GetSubjects(f)
    \/ \E id \in 1..MaxId, E \in SubjectTypes : GetSpecificSubject(id, E)
    \/ \E url \in Urls, T \in UrlTypes : GetResourceByUrl(url, T)
    \/ \E e \in SendErrors : SendFails(e)
    \/ \E r \in Responses : Respond(r)

Spec == Init /\ [][Next]_vars

(***************************************************************************)
(* The vocabulary of the properties.                                       *)
(***************************************************************************)
\* the call in progress has ended, by returning or by a panic
CallEnded == pc \in {"returned", "panicked"}
\* ... and send() had given it a response
Responded == CallEnded /\ ~Unwrap(net).failed
TheResponse == Unwrap(net).response
\* the Result a returned call gave its caller
TheResult == Unwrap(outcome).value
ReturnedErr == pc = "returned" /\ ~TheResult.ok
ReturnedVariant(variant) == ReturnedErr /\ TheResult.error.variant = variant

\* the body of the response is a JSON object with a `code`: it decodes as a WanikaniError
ErrorBodyDecodes ==
    TheResponse.body.text = "json" /\ "code" \in DOMAIN TheResponse.body.json
\* the code and the message of that body
ErrorOfBody ==
    [code |-> TheResponse.body.json.code,
     error |-> IF "error" \in DOMAIN TheResponse.body.json
               THEN TheResponse.body.json.error ELSE None]

\* the Ratelimit-Reset header of the response
HasResetHeader == \E i \in 1..Len(TheResponse.headers) :
                      TheResponse.headers[i].name = "ratelimit-reset"
ResetHeaderValue ==
    TheResponse.headers[CHOOSE i \in 1..Len(TheResponse.headers) :
                            TheResponse.headers[i].name = "ratelimit-reset"].value
\* bytes that are text: visible ASCII
IsText(bytes) == \A i \in 1..Len(bytes) : bytes[i] \in 32..126
\* text that is a decimal integer: an optional sign and digits
IsDecimalInteger(bytes) ==
    /\ bytes # <<>>
    /\ \/ Len(bytes) > 1 /\ bytes[1] \in {43, 45}
       \/ bytes[1] \in 48..57
    /\ \A i \in 2..Len(bytes) : bytes[i] \in 48..57
\* the integer it denotes, of any size
DecimalValue(bytes) ==
    IF bytes[1] \in {43, 45}
    THEN Signed(bytes[1] = 45, LimbsOf([i \in 1..(Len(bytes) - 1) |-> bytes[i + 1] - 48]))
    ELSE Signed(FALSE, LimbsOf([i \in 1..Len(bytes) |-> bytes[i] - 48]))
\* the instant n seconds after the Unix epoch
SecondsAfterEpoch(n) == [secs |-> n, millis |-> 0]

\* C1: a call returns Ok(value) if and only if the response status is exactly 200 and
\* the body decodes as the expected type; every other status (201 and 204 included)
\* yields Err, and a 200 response whose body does not decode yields Error::Client.
C1_OkIffStatus200AndBodyDecodes ==
    Responded =>
        /\ (pc = "returned" /\ TheResult.ok)
              <=> (TheResponse.status = 200 /\ json(call.T, TheResponse.body).ok)
        /\ (pc = "returned" /\ TheResult.ok)
              => TheResult.value = json(call.T, TheResponse.body).value
        /\ TheResponse.status # 200 => ReturnedErr
        /\ (TheResponse.status = 200 /\ ~json(call.T, TheResponse.body).ok)
              => ReturnedVariant("Client")

\* C2: a 429 response with a body that decodes as a WanikaniError and a Ratelimit-Reset
\* header holding the decimal integer N makes the call return Error::RateLimit with
\* that decoded error and a reset_time that is the instant N seconds after the epoch.
C2_ResetTimeIsHeaderSecondsAfterEpoch ==
    (/\ Responded
     /\ TheResponse.status = 429
     /\ ErrorBodyDecodes
     /\ HasResetHeader
     /\ IsDecimalInteger(ResetHeaderValue))
    => /\ ReturnedVariant("RateLimit")
       /\ TheResult.error.error = ErrorOfBody
       /\ TheResult.error.reset_time = SecondsAfterEpoch(DecimalValue(ResetHeaderValue))


\* C3: a 429 response with a decodable error body and no Ratelimit-Reset header, or a
\* header whose text is not a number, is still classified: the call returns
\* Error::RateLimit whose reset_time is the Unix epoch.
C3_AbsentOrNonNumericResetIsEpoch ==
    (/\ Responded
     /\ TheResponse.status = 429
     /\ ErrorBodyDecodes
     /\ \/ ~HasResetHeader
        \/ IsText(ResetHeaderValue) /\ ~IsDecimalInteger(ResetHeaderValue))
    => /\ ReturnedVariant("RateLimit")
       /\ TheResult.error.error = ErrorOfBody
       /\ TheResult.error.reset_time = SecondsAfterEpoch(Zero)

\* a 429 whose header holds the text "abc" came back as a rate limit at the epoch
C3_Witness ==
    /\ Responded
    /\ TheResponse.status = 429
    /\ HasResetHeader
    /\ ResetHeaderValue = <<97, 98, 99>>
    /\ ReturnedVariant("RateLimit")
    /\ TheResult.error.reset_time = SecondsAfterEpoch(Zero)

\* C4: classification of a 429 response never fails because of the Ratelimit-Reset
\* header: for every header value (text that is no number, bytes that are no visible
\* ASCII, negative integers, integers too large for 64 bits or for a timestamp)
\* rate_limit_reset produces a timestamp and the call returns Error::RateLimit.
C4_ClassificationNeverAborts ==
    (Responded /\ TheResponse.status = 429 /\ ErrorBodyDecodes)
    => /\ ~rate_limit_reset(self, TheResponse.headers).panic
       /\ ReturnedVariant("RateLimit")

\* C5: a response whose status is neither 200 nor 429 and whose body decodes as a
\* WanikaniError makes the call return Error::WaniKaniError with exactly the decoded
\* code and message, never Error::RateLimit or Error::Client.
C5_OtherStatusIsWaniKaniError ==
    (Responded /\ TheResponse.status \notin {200, 429} /\ ErrorBodyDecodes)
    => /\ ReturnedErr
       /\ TheResult.error = [variant |-> "WaniKaniError", error |-> ErrorOfBody]

\* a 401 with the body {"code": 401, "error": null} came back as that API error
C5_Witness ==
    /\ Responded
    /\ TheResponse.status = 401
    /\ ErrorBodyDecodes
    /\ ErrorOfBody = [code |-> 401, error |-> None]
    /\ ReturnedVariant("WaniKaniError")
    /\ TheResult.error.error.code = 401

\* C6: a non-200 response (429 included) whose body does not decode as a WanikaniError
\* makes the call return Error::Client carrying the decode failure; a 429 with such a
\* body is no Error::RateLimit and its reset time is not computed, whatever its header.
C6_UndecodableErrorBodyIsClient ==
    (Responded /\ TheResponse.status # 200 /\ ~ErrorBodyDecodes)
    => /\ ReturnedVariant("Client")
       /\ TheResult.error.source = [kind |-> "decode", text |-> TheResponse.body.text]

\* a 429 with a malformed body and a header that is no text came back as Error::Client
C6_Witness ==
    /\ Responded
    /\ TheResponse.status = 429
    /\ TheResponse.body.text = "malformed"
    /\ HasResetHeader
    /\ ResetHeaderValue = <<255>>
    /\ ReturnedVariant("Client")

\* C7: every request the client sends, from any endpoint method and from
\* get_resource_by_url, carries Authorization: Bearer <token> with the token given at
\* construction and Wanikani-Revision: 20170710.
C7_EveryRequestCarriesBothHeaders ==
    \A i \in 1..Len(wire) :
        /\ \E h \in 1..Len(wire[i].headers) :
              wire[i].headers[h] = [name |-> "authorization",
                                    value |-> <<"Bearer", self.token>>]
        /\ \E h \in 1..Len(wire[i].headers) :
              wire[i].headers[h] = [name |-> "wanikani-revision", value |-> <<"20170710">>]
        /\ \A h \in 1..Len(wire[i].headers) :
              /\ wire[i].headers[h].name = "authorization"
                    => wire[i].headers[h].value = <<"Bearer", self.token>>
              /\ wire[i].headers[h].name = "wanikani-revision"
                    => wire[i].headers[h].value = <<"20170710">>

\* get_resource_by_url has handed a request for a foreign URL to the transport
C7_Witness ==
    /\ pc = "awaiting"
    /\ call.caller = "get_resource_by_url"
    /\ self.token = "other-token"
    /\ Len(wire) = 1
    /\ wire[1].url = ForeignUrl
    /\ Len(wire[1].headers) = 2

\* C8: each call sends exactly one HTTP request, never waits and never retries; a 429
\* response or a transport failure of that one attempt is returned to the caller as
\* the typed error.
C8_OneRequestAndTypedError ==
    CallEnded =>
        /\ Len(wire) = 1
        /\ wire[1].url = call.req.url
        /\ Unwrap(net).failed => ReturnedVariant("Client")
        /\ (~Unwrap(net).failed /\ TheResponse.status = 429)
              => (ReturnedVariant("RateLimit") \/ ReturnedVariant("Client"))


(***************************************************************************)
(* The rate limit.  The server as the crate's documentation describes it   *)
(* (lib.rs, "Rate Limit"): a quota of requests per period of one minute, a *)
(* 429 once it is used up, and in the headers the epoch second at which    *)
(* the period ends.  The caller is test_rate_limiting (client/summary.rs   *)
(* and client/mod.rs): it calls until a call fails, checks the error,      *)
(* sleeps until a second after reset_time and calls once more.  Time       *)
(* passes while a call is with the server and while the caller sleeps.     *)
(***************************************************************************)
\* the period of the quota, in seconds
Window == 60
\* the quota: the requests the server answers per period (60 for the API)
Quota == 3
\* the seconds a call is with the server: at least one, at most MaxLatency
MaxLatency == 2

\* the period that holds second 1500000000, and the second the clock stops at
StartOfTime == 25000000 * Window
MaxTime == StartOfTime + 3 * Window

\* a natural as decimal digits
RECURSIVE DigitsOf(_)
DigitsOf(n) == IF n < 10 THEN <<n>> ELSE Append(DigitsOf(n \div 10), n % 10)

\* the second t as a signed number
Second(t) == Signed(FALSE, FromNat(t))

\* the server counts a request at second t against the quota of t's period
Throttle(srv, t) ==
    LET used == IF srv.period = t \div Window THEN srv.used ELSE 0
    IN  [limited |-> used >= Quota,
         reset |-> (t \div Window + 1) * Window,
         server |-> [period |-> t \div Window,
                     used |-> IF used >= Quota THEN used ELSE used + 1]]

\* "{URL_BASE}/subjects?levels=5000", the URL of the test in client/mod.rs
TestUrl == append_pair(push(URL_BASE, "subjects"), "levels", <<"5000">>)

\* what the server answers a request within the quota: the summary report, or the
\* empty collection of the subjects of level 5000
Content(req) ==
    IF req.url = push(URL_BASE, "summary")
    THEN JsonBody(SummaryJson)
    ELSE JsonBody(CollectionJson(req.url, None, 1000, 0, <<>>))

\* Timestamp > second t, Timestamp < second t, and Timestamp + k seconds for a
\* timestamp after the epoch
After(ts, t) ==
    \/ ~SLeq(ts.secs, Second(t))
    \/ ts.secs = Second(t) /\ ts.millis > 0
Before(ts, t) == ~SLeq(Second(t), ts.secs)
AddSeconds(ts, k) == [ts EXCEPT !.secs = Signed(FALSE, MagAdd(@.mag, FromNat(k)))]

\* the call of each test
TestBegin ==
    IF prog.test = "get_summary"
    THEN Begin("get_summary", <<"Summary">>, get_summary(self))
    ELSE Begin("get_resource_by_url", <<"Collection", "()">>,
               get_resource_by_url(self, TestUrl))

\* loop { client.get_summary().await ... }: the call of one iteration
TestCall ==
    /\ prog.at = "loop"
    /\ TestBegin
    /\ prog' = [prog EXCEPT !.at = "loop_await", !.sent_at = now]
    /\ UNCHANGED server

\* the server answers the call in progress
ServerRespond ==
    /\ pc = "awaiting"
    /\ now > prog.sent_at
    /\ server' = Throttle(server, now).server
    /\ Finish(Answer(
          IF Throttle(server, now).limited
          THEN Response(TOO_MANY_REQUESTS,
                        ResetHeader(Digits(DigitsOf(Throttle(server, now).reset))),
                        RateLimitBody)
          ELSE Response(StatusOK,
                        ResetHeader(Digits(DigitsOf(Throttle(server, now).reset))),
                        Content(wire[1]))))
    /\ UNCHANGED prog

\* a second passes, while a call is with the server or the caller sleeps
Tick ==
    /\ now < MaxTime
    /\ \/ pc = "awaiting" /\ now - prog.sent_at < MaxLatency
       \/ prog.at = "sleep" /\ After(prog.wake, now)
    /\ now' = now + 1
    /\ UNCHANGED <<overflow_checks, self, pc, call, wire, net, outcome, server, prog>>

\* the call returned Ok: the next iteration
TestContinue ==
    /\ prog.at = "loop_await"
    /\ pc = "returned"
    /\ TheResult.ok
    /\ prog' = [prog EXCEPT !.at = "loop"]
    /\ UNCHANGED <<overflow_checks, self, pc, call, wire, net, outcome, now, server>>

\* the call returned Err: `break e`, the let-else and the four assertions on the
\* error and on wait_period = reset_time - Utc::now(); then the sleep begins
TestBreak ==
    /\ prog.at = "loop_await"
    /\ pc = "returned"
    /\ ~TheResult.ok
    /\ prog' =
          IF /\ TheResult.error.variant = "RateLimit"
             /\ TheResult.error.error.code = 429
             /\ TheResult.error.error.error = Some("Rate limit exceeded")
             /\ Before(TheResult.error.reset_time, now + 60)
             /\ After(TheResult.error.reset_time, now)
          THEN [prog EXCEPT !.at = "sleep",
                            !.wake = AddSeconds(TheResult.error.reset_time, 1)]
          ELSE [prog EXCEPT !.at = "failed"]
    /\ UNCHANGED <<overflow_checks, self, pc, call, wire, net, outcome, now, server>>

\* sleep_until is over: the last call
TestWake ==
    /\ prog.at = "sleep"
    /\ ~After(prog.wake, now)
    /\ TestBegin
    /\ prog' = [prog EXCEPT !.at = "final_await", !.sent_at = now]
    /\ UNCHANGED server

\* assert!(client.get_summary().await.is_ok())
TestFinish ==
    /\ prog.at = "final_await"
    /\ pc = "returned"
    /\ prog' = [prog EXCEPT !.at = IF TheResult.ok THEN "passed" ELSE "failed"]
    /\ UNCHANGED <<overflow_checks, self, pc, call, wire, net, outcome, now, server>>

InitRate ==
    /\ overflow_checks \in BOOLEAN
    /\ self = new("MY_TOKEN")
    /\ pc = "idle"
    /\ call = NoCall
    /\ wire = <<>>
    /\ net = None
    /\ outcome = None
    /\ now \in StartOfTime..(StartOfTime + Window - 1)
    /\ server \in {[period |-> StartOfTime \div Window, used |-> u] : u \in 0..Quota}
    /\ prog \in {[name |-> "test_rate_limiting", test |-> t, at |-> "loop",
                  sent_at |-> 0, wake |-> Timestamp(Zero, 0)] :
                    t \in {"get_summary", "get_resource_by_url"}}

NextRate ==
    \/ TestCall
    \/ ServerRespond
    \/ Tick
    \/ TestContinue
    \/ TestBreak
    \/ TestWake
    \/ TestFinish

\* the states in which ServerRespond is enabled, and those in which TestBreak is
CanRespond == pc = "awaiting" /\ now > prog.sent_at
CanBreak == prog.at = "loop_await" /\ pc = "returned" /\ ~TheResult.ok

\* the caller and the server keep taking their steps, and time passes.  ServerRespond
\* and TestBreak are each the only step that ends the states in which it is enabled,
\* so that their weak fairness is []<>~CanRespond and []<>~CanBreak
FairRate ==
    /\ WF_vars(TestCall)
    /\ WF_vars(Tick)
    /\ WF_vars(TestContinue)
    /\ WF_vars(TestWake)
    /\ WF_vars(TestFinish)
    /\ []<>~CanRespond
    /\ []<>~CanBreak

SpecRate == InitRate /\ [][NextRate]_vars /\ FairRate


\* a call of the loop has returned an error
LoopCallFailed == prog.at = "loop_await" /\ pc = "returned" /\ ~TheResult.ok
\* the loop has ended on a rate-limit error
RateLimited == prog.at \in {"sleep", "final_await", "passed"}
\* the call made after reset_time has returned
LastCallReturned == prog.at = "final_await" /\ pc = "returned"

\* C9: against a server that enforces a quota of requests per period, repeated calls
\* on one client eventually return Error::RateLimit with code 429 and a reset_time
\* that lies in the future, less than one period (60 seconds) ahead; the call made on
\* the same client once reset_time has passed succeeds.
C9_RateLimitedThenSucceedsAfterReset ==
    /\ [](pc # "panicked")
    /\ [](LoopCallFailed =>
             /\ TheResult.error.variant = "RateLimit"
             /\ TheResult.error.error.code = 429
             /\ ~SLeq(TheResult.error.reset_time.secs, Second(now))
             /\ ~SLeq(Second(now + 60), TheResult.error.reset_time.secs))
    /\ <>RateLimited
    /\ [](LastCallReturned => (After(prog.wake, prog.sent_at) = FALSE /\ TheResult.ok))
    /\ <>(prog.at = "passed")

\* the loop of get_summary calls has just ended on a rate-limit error with code 429,
\* after the server had answered the whole quota
C9_Witness ==
    /\ prog.test = "get_summary"
    /\ prog.at = "sleep"
    /\ ReturnedVariant("RateLimit")
    /\ TheResult.error.error.code = 429
    /\ server.used = Quota


(***************************************************************************)
(* The pagination walk.  The server as the crate's documentation describes *)
(* it (lib.rs, "Pagination"): the subjects in the scope of the filter, a   *)
(* page at a time, the id of a subject as the cursor, next_url on every    *)
(* page but the last, total_count the count of the whole scope.  The       *)
(* caller is main of examples/fetch_subjects.rs.  Another client may       *)
(* change the subjects once while the walk goes on.                        *)
(***************************************************************************)
\* the subjects a server holds at most, and the subjects of a page
MaxSubjects == 5
PerPage == 2

ObjectTypes == {"radical", "kanji", "vocabulary"}

\* the payload type of each object type
PayloadType(object) ==
    CASE object = "radical" -> "Radical"
      [] object = "kanji" -> "Kanji"
      [] object = "vocabulary" -> "Vocabulary"

\* the value of a query pair of the URL, None without the pair
QueryValue(url, key) ==
    IF \E i \in 1..Len(url.query) : url.query[i].key = key
    THEN url.query[CHOOSE i \in 1..Len(url.query) : url.query[i].key = key].value
    ELSE None

\* the subjects of the list with their id in the set, in the order of the list
RECURSIVE Keep(_, _)
Keep(subjects, ids) ==
    IF subjects = <<>> THEN <<>>
    ELSE (IF Head(subjects).id \in ids THEN <<Head(subjects)>> ELSE <<>>)
             \o Keep(Tail(subjects), ids)

\* the filter of the URL lets the subject through: its type is one the URL names
InScope(s, url) ==
    \/ QueryValue(url, "types") = None
    \/ \E i \in 1..Len(Unwrap(QueryValue(url, "types"))) :
          Unwrap(QueryValue(url, "types"))[i] = s.object

\* the subjects in the scope of the URL's filter
Scope(srv, url) ==
    Keep(srv.subjects, {srv.subjects[i].id : i \in {k \in 1..Len(srv.subjects) :
                                                      InScope(srv.subjects[k], url)}})

\* the cursor of the URL: the id after which the page begins
Cursor(url) ==
    IF QueryValue(url, "page_after_id") = None THEN 0
    ELSE CHOOSE id \in 0..(MaxSubjects + 1) :
             <<ToString(id)>> = Unwrap(QueryValue(url, "page_after_id"))

\* the query without the pairs of the key
RECURSIVE WithoutPair(_, _)
WithoutPair(query, key) ==
    IF query = <<>> THEN <<>>
    ELSE (IF Head(query).key = key THEN <<>> ELSE <<Head(query)>>)
             \o WithoutPair(Tail(query), key)

\* the URL with the cursor at id
WithCursor(url, id) ==
    append_pair([url EXCEPT !.query = WithoutPair(@, "page_after_id")],
                "page_after_id", <<ToString(id)>>)

\* the page the server answers a request for the URL with
Page(srv, url) ==
    LET rest == Keep(Scope(srv, url), (Cursor(url) + 1)..(MaxSubjects + 1))
        data == SubSeq(rest, 1, IF Len(rest) > PerPage THEN PerPage ELSE Len(rest))
    IN  CollectionJson(url,
                       IF Len(rest) > PerPage
                       THEN Some(WithCursor(url, data[Len(data)].id)) ELSE None,
                       PerPage,
                       Len(Scope(srv, url)),
                       [i \in 1..Len(data) |->
                           ResourceJson(data[i].id, data[i].object,
                                        PayloadType(data[i].object))])

\* the filter of the example: radicals and kanji
WalkFilter == [SubjectFilter_default EXCEPT !.types = Some(<<"Radical", "Kanji">>)]

\* client.get_subjects(&filters)
WalkStart ==
    /\ prog.at = "start"
    /\ Begin("get_subjects", <<"Collection", "Subject">>, get_subjects(self, WalkFilter))
    /\ prog' = [prog EXCEPT !.at = "first_await"]
    /\ UNCHANGED server

\* the server answers the call in progress with the page of its URL
WalkServe ==
    /\ pc = "awaiting"
    /\ \E page \in {Page(server, wire[1].url)} :
          Finish(Answer(Response(StatusOK, <<>>, JsonBody(page))))
    /\ UNCHANGED <<server, prog>>

\* the call in progress fails in the transport
WalkSendFails ==
    /\ pc = "awaiting"
    /\ Finish(Failure([kind |-> "connect"]))
    /\ UNCHANGED <<server, prog>>

\* .expect("Get Subjects"); let mut subjects = collection.data
WalkFirst ==
    /\ prog.at = "first_await"
    /\ pc \in {"returned", "panicked"}
    /\ prog' = IF pc = "returned" /\ TheResult.ok
               THEN [prog EXCEPT !.at = "loop",
                                 !.collection = TheResult.value,
                                 !.subjects = TheResult.value.data,
                                 !.first_total_count = TheResult.value.total_count]
               ELSE [prog EXCEPT !.at = "panicked"]
    /\ UNCHANGED <<overflow_checks, self, pc, call, wire, net, outcome, now, server>>

\* while let Some(ref next_url) = collection.pages.next_url: one more page
WalkNext ==
    /\ prog.at = "loop"
    /\ IsSome(prog.collection.pages.next_url)
    /\ Begin("get_resource_by_url", <<"Collection", "Subject">>,
             get_resource_by_url(self, Unwrap(prog.collection.pages.next_url)))
    /\ prog' = [prog EXCEPT !.at = "next_await"]
    /\ UNCHANGED server

\* the step with subjects = collection.data in place of subjects.append(..)
WalkAppend_overwrite ==
    /\ prog.at = "next_await"
    /\ pc \in {"returned", "panicked"}
    /\ prog' = IF pc = "returned" /\ TheResult.ok
               THEN [prog EXCEPT !.at = "loop",
                                 !.collection = TheResult.value,
                                 !.subjects = TheResult.value.data]
               ELSE [prog EXCEPT !.at = "panicked"]
    /\ UNCHANGED <<overflow_checks, self, pc, call, wire, net, outcome, now, server>>

\* .expect("Next page"); subjects.append(&mut collection.data)
WalkAppend ==
    /\ prog.at = "next_await"
    /\ pc \in {"returned", "panicked"}
    /\ prog' = IF pc = "returned" /\ TheResult.ok
               THEN [prog EXCEPT !.at = "loop",
                                 !.collection = TheResult.value,
                                 !.subjects = @ \o TheResult.value.data]
               ELSE [prog EXCEPT !.at = "panicked"]
    /\ UNCHANGED <<overflow_checks, self, pc, call, wire, net, outcome, now, server>>

\* next_url is None: the loop ends and the subjects are written out
WalkDone ==
    /\ prog.at = "loop"
    /\ prog.collection.pages.next_url = None
    /\ prog' = [prog EXCEPT !.at = "done"]
    /\ UNCHANGED <<overflow_checks, self, pc, call, wire, net, outcome, now, server>>

\* another client of the API adds a subject or takes one away, once
ServerMutate ==
    /\ ~server.mutated
    /\ prog.at \notin {"start", "done", "panicked"}
    /\ \/ /\ Len(server.subjects) < MaxSubjects + 1
          /\ \E object \in ObjectTypes :
                server' = [subjects |-> Append(server.subjects,
                                               [id |-> Len(server.subjects) + 1,
                                                object |-> object]),
                           mutated |-> TRUE]
       \/ \E i \in 1..Len(server.subjects) :
                server' = [subjects |-> Keep(server.subjects,
                                             (1..(MaxSubjects + 1)) \ {i}),
                           mutated |-> TRUE]
    /\ UNCHANGED <<overflow_checks, self, pc, call, wire, net, outcome, now, prog>>

\* the subjects 1..n with these types
Catalogue(objects) == [i \in 1..Len(objects) |-> [id |-> i, object |-> objects[i]]]

NoCollection ==
    [pages |-> [next_url |-> None, previous_url |-> None, per_page |-> 0],
     total_count |-> 0, data |-> <<>>]

InitWalk ==
    /\ overflow_checks \in BOOLEAN
    /\ self = new("MY_TOKEN")
    /\ pc = "idle"
    /\ call = NoCall
    /\ wire = <<>>
    /\ net = None
    /\ outcome = None
    /\ now = 0
    /\ \E n \in 0..MaxSubjects : \E objects \in [1..n -> ObjectTypes] :
          server = [subjects |-> Catalogue(objects), mutated |-> FALSE]
    /\ prog = [name |-> "fetch_subjects", at |-> "start", collection |-> NoCollection,
               subjects |-> <<>>, first_total_count |-> 0]

NextWalk ==
    \/ WalkStart
    \/ WalkServe
    \/ WalkSendFails
    \/ WalkFirst
    \/ WalkNext
    \/ WalkAppend
    \/ WalkDone
    \/ ServerMutate

\* the caller keeps taking its steps, and every call ends: answered or failed
FairWalk ==
    /\ WF_vars(WalkStart)
    /\ WF_vars(WalkFirst)
    /\ WF_vars(WalkNext)
    /\ WF_vars(WalkAppend)
    /\ WF_vars(WalkDone)
    /\ []<>(pc # "awaiting")

SpecWalk == InitWalk /\ [][NextWalk]_vars /\ FairWalk


(***************************************************************************)
(* C10: the pagination walk.                                               *)
(***************************************************************************)
\* the walk is over: the loop ended, or an expect() aborted the program
WalkEnded == prog.at \in {"done", "panicked"}

\* the walk is at a call for a page
AtPage == prog.at \in {"first_await", "next_await"}

\* C10: the pagination walk (the first page with a filter, then
\* get_resource_by_url on pages.next_url until it is absent) terminates, the
\* page chain of the server being finite; when no one changed the subjects
\* meanwhile, the concatenation of the pages' data is as long as the first
\* page's total_count says; every page is asked for and decoded as a Collection
\* of the same element type, and a page the server answered always decodes.
C10_WalkTerminatesWithTotalCount ==
    /\ <>WalkEnded
    /\ [](prog.at = "done" /\ ~server.mutated
             => Len(prog.subjects) = prog.first_total_count)
    /\ [](AtPage => call.T = <<"Collection", "Subject">>)
    /\ [](AtPage /\ CallEnded /\ Responded => TheResult.ok)

\* a walk of more than one page of radicals and kanji, past the vocabulary the
\* filter leaves out, came to its end with no change of the subjects
C10_Witness ==
    /\ prog.at = "done"
    /\ ~server.mutated
    /\ Len(prog.subjects) > PerPage
    /\ Len(prog.subjects) < Len(server.subjects)
    /\ call.caller = "get_resource_by_url"


(***************************************************************************)
(* C11: get_resource_by_url.                                               *)
(***************************************************************************)
\* C11: get_resource_by_url(url) hands the transport one plain GET for exactly
\* the URL it was given (origin, path segments and query pairs untouched), with
\* no body and nothing but the two required headers added; the answer is
\* decoded into the type the caller chose and classified by do_request as for
\* every other endpoint: the outcome depends on that type and the answer only.
C11_GetResourceByUrlIsPlainGet ==
    (call.caller = "get_resource_by_url" /\ pc # "idle") =>
        /\ Len(wire) = 1
        /\ wire[1].method = "GET"
        /\ wire[1].url = Unwrap(prog.given)
        /\ wire[1].body = None
        /\ Len(wire[1].headers) = 2
        /\ CallEnded => Unwrap(outcome) = do_request(self, "get_summary", call.T, Unwrap(net))
        /\ (Responded /\ pc = "returned" /\ TheResult.ok)
              => TheResult.value = Decode(call.T, TheResponse.body.json)

\* the page of another origin, cursor in its query, was asked for as given and
\* came back as a collection of subjects
C11_Witness ==
    /\ call.caller = "get_resource_by_url"
    /\ prog.given = Some(ForeignUrl)
    /\ wire[1].url.query # <<>>
    /\ call.T = <<"Collection", "Subject">>
    /\ pc = "returned"
    /\ TheResult.ok


(***************************************************************************)
(* C12: the empty page.                                                    *)
(***************************************************************************)
\* the body of the response is a collection with no data and no next page
EmptyCollectionBody ==
    /\ TheResponse.body.text = "json"
    /\ HasCommon(TheResponse.body.json)
    /\ TheResponse.body.json.object = "collection"
    /\ {"pages", "total_count", "data"} \subseteq DOMAIN TheResponse.body.json
    /\ TheResponse.body.json.pages.next_url = None
    /\ TheResponse.body.json.data = JsonArray(<<>>)

\* C12: a 200 response holding a collection with an empty data sequence, a
\* total_count and no next URL (a cursor out of range, a filter that matches
\* nothing) comes back to a caller that asked for a collection as Ok: data is
\* empty, pages.next_url is None, total_count is the body's; never an error.
C12_EmptyCollectionIsOk ==
    (/\ Responded
     /\ TheResponse.status = 200
     /\ call.T[1] = "Collection"
     /\ EmptyCollectionBody)
    => /\ pc = "returned"
       /\ TheResult.ok
       /\ TheResult.value.data = <<>>
       /\ TheResult.value.pages.next_url = None
       /\ TheResult.value.total_count = TheResponse.body.json.total_count

\* get_subjects was answered with the page past the last of two subjects, and
\* returned it
C12_Witness ==
    /\ Responded
    /\ TheResponse.status = 200
    /\ call.caller = "get_subjects"
    /\ EmptyCollectionBody
    /\ TheResponse.body.json.total_count = 2
    /\ pc = "returned"
    /\ TheResult.ok
    /\ TheResult.value.data = <<>>

\* ---------------------------------------------------------------------------
\* The filters: apply_filters of each filter type, applied to the URL its
\* endpoint has built (the base URL with the endpoint's path pushed).
\* ---------------------------------------------------------------------------

MaxListLen == 2

FilterKinds ==
    {"IdFilter", "SubjectFilter", "StudyMaterialFilter", "AssignmentFilter",
     "ReviewStatisticFilter"}

\* <F as Default>::default() of each filter type
FilterDefault(kind) ==
    CASE kind = "IdFilter" -> IdFilter_default
      [] kind = "SubjectFilter" -> SubjectFilter_default
      [] kind = "StudyMaterialFilter" -> StudyMaterialFilter_default
      [] kind = "AssignmentFilter" -> AssignmentFilter_default
      [] kind = "ReviewStatisticFilter" -> ReviewStatisticFilter_default

\* the path each endpoint pushes before it applies its filter
FilterPaths(kind) ==
    CASE kind = "IdFilter" -> {"level_progressions", "resets", "voice_actors"}
      [] kind = "SubjectFilter" -> {"subjects"}
      [] kind = "StudyMaterialFilter" -> {"study_materials"}
      [] kind = "AssignmentFilter" -> {"assignments"}
      [] kind = "ReviewStatisticFilter" -> {"review_statistics"}

\* the fields of the filter types by the type of their value
NumberListFields == {"ids", "subject_ids", "levels", "srs_stages"}
TypeListFields == {"types", "subject_types"}
SlugListFields == {"slugs"}
ListFields == NumberListFields \cup TypeListFields \cup SlugListFields
TriStateFields == {"hidden", "burned", "started", "unlocked"}
FlagFields ==
    {"immediately_available_for_lessons", "immediately_available_for_review", "in_review"}
TimeFields == {"available_after", "available_before", "updated_after"}
PercentageFields == {"percentages_greater_than", "percentages_less_than"}

ListsOver(values) == UNION {[1..n -> values] : n \in 0..MaxListLen}
Slugs == {"ground", "one"}

\* the values a field is given: unset (or false), and set
FieldValues(field) ==
    IF field \in NumberListFields THEN {None} \cup {Some(l) : l \in ListsOver(1..MaxId)}
    ELSE IF field \in TypeListFields
    THEN {None} \cup {Some(l) : l \in ListsOver(SubjectType)}
    ELSE IF field \in SlugListFields THEN {None} \cup {Some(l) : l \in ListsOver(Slugs)}
    ELSE IF field \in TriStateFields THEN {None, Some(TRUE), Some(FALSE)}
    ELSE IF field \in FlagFields THEN BOOLEAN
    ELSE IF field \in TimeFields THEN {None, Some(Epoch), Some(Instant1500000000)}
    ELSE {None, Some(0), Some(100)}

ApplyFilter(kind, applied) ==
    /\ prog.at = "built"
    /\ prog.kind = kind
    /\ prog' = [prog EXCEPT !.url = applied, !.at = "applied"]
    /\ UNCHANGED <<overflow_checks, self, pc, call, wire, net, outcome, now, server>>

ApplyIdFilter ==
    ApplyFilter("IdFilter", IdFilter_apply_filters(prog.filter, prog.url))
ApplySubjectFilter ==
    ApplyFilter("SubjectFilter", SubjectFilter_apply_filters(prog.filter, prog.url))
ApplyStudyMaterialFilter ==
    ApplyFilter("StudyMaterialFilter",
                StudyMaterialFilter_apply_filters(prog.filter, prog.url))
ApplyAssignmentFilter ==
    ApplyFilter("AssignmentFilter", AssignmentFilter_apply_filters(prog.filter, prog.url))
ApplyReviewStatisticFilter ==
    ApplyFilter("ReviewStatisticFilter",
                ReviewStatisticFilter_apply_filters(prog.filter, prog.url))

\* a filter of each type with at most two of its fields given a value
InitFilter ==
    /\ overflow_checks \in BOOLEAN
    /\ self = new("MY_TOKEN")
    /\ pc = "idle"
    /\ call = NoCall
    /\ wire = <<>>
    /\ net = None
    /\ outcome = None
    /\ now = 0
    /\ server = NoServer
    /\ \E kind \in FilterKinds : \E path \in FilterPaths(kind) :
       \E a \in DOMAIN FilterDefault(kind) : \E b \in DOMAIN FilterDefault(kind) :
       \E va \in FieldValues(a) : \E vb \in FieldValues(b) :
          prog = [name |-> "apply_filters", at |-> "built", kind |-> kind,
                  filter |-> [FilterDefault(kind) EXCEPT ![a] = va, ![b] = vb],
                  url |-> push(self.base_url, path)]

NextFilter ==
    \/ ApplyIdFilter
    \/ ApplySubjectFilter
    \/ ApplyStudyMaterialFilter
    \/ ApplyAssignmentFilter
    \/ ApplyReviewStatisticFilter

SpecFilter == InitFilter /\ [][NextFilter]_vars

\* What the claims about the filters speak of: the filter has been applied; the
\* positions of a key in the query; the value at a key's first position.
Applied == prog.name = "apply_filters" /\ prog.at = "applied"
KeyAt(key) == {i \in 1..Len(prog.url.query) : prog.url.query[i].key = key}
ValueOf(key) == prog.url.query[CHOOSE i \in KeyAt(key) : TRUE].value
FieldsOf(fields) == fields \cap DOMAIN prog.filter
ElementTexts(field, list) ==
    [i \in 1..Len(list) |->
        IF field \in NumberListFields THEN ToString(list[i])
        ELSE IF field \in TypeListFields THEN SubjectType_to_string(list[i])
        ELSE list[i]]
CommaJoined(texts) ==
    [i \in 1..(2 * Len(texts) - 1) |-> IF i % 2 = 1 THEN texts[(i + 1) \div 2] ELSE ","]

\* C13: apply_filters of each of the five filter types, called with the type's
\* Default value (every optional field unset, every flag false), adds no query
\* parameter: the query of the resulting URL is empty.
C13_DefaultFilterAddsNothing ==
    (Applied /\ prog.filter = FilterDefault(prog.kind)) => prog.url.query = <<>>

C13_Witness ==
    /\ Applied
    /\ prog.kind = "AssignmentFilter"
    /\ prog.filter = AssignmentFilter_default
    /\ prog.url = push(URL_BASE, "assignments")

\* C14: a list-valued field (ids, subject_ids, subject_types, types, slugs,
\* levels, srs_stages) set to a list of more than one value gives its key exactly
\* once, with the elements joined by "," in the list's order as the value.
C14_ListIsOneCommaJoinedPair ==
    Applied =>
        \A field \in FieldsOf(ListFields) :
            (IsSome(prog.filter[field]) /\ Len(Unwrap(prog.filter[field])) > 1) =>
                /\ Cardinality(KeyAt(field)) = 1
                /\ ValueOf(field) =
                       Some(CommaJoined(ElementTexts(field, Unwrap(prog.filter[field]))))

C14_Witness ==
    /\ Applied
    /\ prog.kind = "StudyMaterialFilter"
    /\ prog.filter.subject_types = Some(<<"Vocabulary", "Radical">>)
    /\ prog.filter.ids = Some(<<2, 1>>)
    /\ prog.url.query =
           << [key |-> "ids", value |-> Some(<<"2", ",", "1">>)],
              [key |-> "subject_types", value |-> Some(<<"vocabulary", ",", "radical">>)] >>

\* C15: a tri-state boolean field (hidden, burned, started, unlocked) gives
\* key=true when it is Some(true), key=false when it is Some(false), and no
\* pair with its key when it is None.
C15_TriStateBooleans ==
    Applied =>
        \A field \in FieldsOf(TriStateFields) :
            /\ prog.filter[field] = None => KeyAt(field) = {}
            /\ prog.filter[field] = Some(TRUE) =>
                   Cardinality(KeyAt(field)) = 1 /\ ValueOf(field) = Some(<<"true">>)
            /\ prog.filter[field] = Some(FALSE) =>
                   Cardinality(KeyAt(field)) = 1 /\ ValueOf(field) = Some(<<"false">>)

C15_Witness ==
    /\ Applied
    /\ prog.kind = "AssignmentFilter"
    /\ prog.filter.burned = Some(FALSE)
    /\ prog.filter.started = Some(TRUE)
    /\ prog.filter.hidden = None
    /\ prog.url.query = << [key |-> "burned", value |-> Some(<<"false">>)],
                           [key |-> "started", value |-> Some(<<"true">>)] >>

\* C16: a pure-flag field of AssignmentFilter (immediately_available_for_lessons,
\* immediately_available_for_review, in_review) gives the bare key with no value
\* when it is true and nothing with its key when it is false: never key=true,
\* never key=false.
C16_PureFlags ==
    (Applied /\ prog.kind = "AssignmentFilter") =>
        \A field \in FlagFields :
            /\ prog.filter[field] =>
                   Cardinality(KeyAt(field)) = 1 /\ ValueOf(field) = None
            /\ ~prog.filter[field] => KeyAt(field) = {}

C16_Witness ==
    /\ Applied
    /\ prog.kind = "AssignmentFilter"
    /\ prog.filter.in_review
    /\ prog.filter.immediately_available_for_lessons
    /\ ~prog.filter.immediately_available_for_review
    /\ prog.url.query = << [key |-> "immediately_available_for_lessons", value |-> None],
                           [key |-> "in_review", value |-> None] >>

\* ---------------------------------------------------------------------------
\* serde: the resource types written by serde_json::to_string and read back by
\* serde_json::from_str, as the tests of each module do; and the bodies of the
\* subjects endpoint read as Resource<Subject> and as a concrete subject type.
\* ---------------------------------------------------------------------------

\* a derived Serialize: every field is written, an Option that is None as null
\* (none of these types has skip_serializing_if); an untagged Subject is
\* written as the struct it holds
SerializeStruct(data) ==
    JsonObjectWith(RequiredKeys(data.variant) \cup OptionalKeys(data.variant),
                   OptionalKeys(data.variant) \ data.keys)

\* serde_json::to_string of a Resource<T> or a VoiceActor (id, the flattened
\* common, data) and of a User (the flattened common, data)
to_string(T, v) ==
    IF T[1] = "User"
    THEN JsonBody([object |-> v.common.object, url |-> v.common.url,
                   data_updated_at |-> v.common.data_updated_at,
                   data |-> SerializeStruct(v.data)])
    ELSE JsonBody([id |-> v.id, object |-> v.common.object, url |-> v.common.url,
                   data_updated_at |-> v.common.data_updated_at,
                   data |-> SerializeStruct(v.data)])

\* serde_json::from_str::<T>
from_str(T, text) == json(T, text)

\* the types of C19, the concrete subject types, and the generic one
ResourcePayloads ==
    {"Assignment", "LevelProgression", "Reset", "ReviewStatistic", "StudyMaterial"}
RoundTripTypes == {<<"Resource", E>> : E \in ResourcePayloads} \cup {<<"User">>, <<"VoiceActor">>}
ConcreteSubjects == {<<"Resource", X>> : X \in SubjectType}
AnySubject == <<"Resource", "Subject">>
SerdeTypes == RoundTripTypes \cup ConcreteSubjects \cup {AnySubject}

PayloadOf(T) ==
    CASE T[1] = "User" -> "UserData"
      [] T[1] = "VoiceActor" -> "VoiceActorData"
      [] T[1] = "Resource" -> T[2]

\* the ResourceType a value of each type holds, and the path of its url;
\* ResourceType has no variant for an assignment, whose values hold another
ObjectOf(E) ==
    CASE E = "Assignment" -> "collection"
      [] E = "LevelProgression" -> "level_progression"
      [] E = "Reset" -> "reset"
      [] E = "ReviewStatistic" -> "review_statistic"
      [] E = "StudyMaterial" -> "study_material"
      [] E = "UserData" -> "user"
      [] E = "VoiceActorData" -> "voice_actor"
      [] E \in SubjectType -> SubjectType_to_string(E)

\* the values of a type: each Option field set or unset
Payloads(E) ==
    {[variant |-> E, keys |-> RequiredKeys(E) \cup set] : set \in SUBSET OptionalKeys(E)}
Commons(E) ==
    {[object |-> ObjectOf(E), url |-> push(URL_BASE, ObjectOf(E)), data_updated_at |-> at] :
        at \in {None, Some(Instant1500000000)}}
Values(T) ==
    IF T[1] = "User"
    THEN {[common |-> c, data |-> d] :
             c \in Commons(PayloadOf(T)), d \in Payloads(PayloadOf(T))}
    ELSE {[id |-> id, common |-> c, data |-> d] :
             id \in 1..MaxId, c \in Commons(PayloadOf(T)), d \in Payloads(PayloadOf(T))}

\* a subject of type X as the API sends it: every key of the type, the keys of
\* Option fields holding a value or null
SubjectJson(id, X, nulls) ==
    [id |-> id, object |-> SubjectType_to_string(X),
     url |-> push(push(URL_BASE, "subjects"), ToString(id)),
     data_updated_at |-> Some(Instant1500000000),
     data |-> JsonObjectWith(PayloadKeys(X), nulls)]
SubjectBodies(X) ==
    {JsonBody(SubjectJson(id, X, nulls)) : id \in 1..MaxId, nulls \in SUBSET OptionalKeys(X)}

\* bodies no value of the library serializes to: the payload of one subject type,
\* of two at once, or only the fields every subject has, under any ResourceType
PayloadKeySets ==
    {PayloadKeys(X) \cup PayloadKeys(Y) : X \in SubjectType, Y \in SubjectType}
    \cup {SubjectCommonKeys}
AnyBody == <<"Body">>
TaggedBodies ==
    {JsonBody([id |-> 1, object |-> tag, url |-> push(push(URL_BASE, "subjects"), "1"),
               data_updated_at |-> Some(Instant1500000000),
               data |-> JsonObject(keys)]) :
        tag \in ResourceTypes, keys \in PayloadKeySets}

Serialize ==
    /\ prog.at = "value"
    /\ prog' = [prog EXCEPT !.text = Some(to_string(prog.T, Unwrap(prog.value))),
                            !.at = "text"]
    /\ UNCHANGED <<overflow_checks, self, pc, call, wire, net, outcome, now, server>>

\* the same text read as one type and then as another
Deserialize(T) ==
    /\ prog.at = "text"
    /\ T \notin DOMAIN prog.results
    /\ Cardinality(DOMAIN prog.results) < 2
    /\ prog' = [prog EXCEPT !.results = @ @@ (T :> from_str(T, Unwrap(prog.text)))]
    /\ UNCHANGED <<overflow_checks, self, pc, call, wire, net, outcome, now, server>>

InitSerde ==
    /\ overflow_checks \in BOOLEAN
    /\ self = new("MY_TOKEN")
    /\ pc = "idle"
    /\ call = NoCall
    /\ wire = <<>>
    /\ net = None
    /\ outcome = None
    /\ now = 0
    /\ server = NoServer
    /\ \/ \E T \in RoundTripTypes \cup ConcreteSubjects : \E v \in Values(T) :
             prog = [name |-> "serde", at |-> "value", T |-> T, value |-> Some(v),
                     text |-> None, results |-> <<>>]
       \/ \E T \in ConcreteSubjects : \E body \in SubjectBodies(PayloadOf(T)) :
             prog = [name |-> "serde", at |-> "text", T |-> T, value |-> None,
                     text |-> Some(body), results |-> <<>>]
       \/ \E body \in TaggedBodies :
             prog = [name |-> "serde", at |-> "text", T |-> AnyBody, value |-> None,
                     text |-> Some(body), results |-> <<>>]

NextSerde ==
    \/ Serialize
    \/ \E T \in SerdeTypes : Deserialize(T)

SpecSerde == InitSerde /\ [][NextSerde]_vars

\* What the claims about serde speak of: a body of the API was read, or a value
\* was written and read back, as type T with result ResultAs(T).
FromBody(T) == prog.name = "serde" /\ prog.value = None /\ prog.T = T
FromValue(T) == prog.name = "serde" /\ prog.value # None /\ prog.T = T
ReadAs(T) == T \in DOMAIN prog.results
ResultAs(T) == prog.results[T]

\* C17: a subject body of concrete type X read as Resource<Subject> and as
\* Resource<X> gives the same id and the same common fields, and the Subject is
\* the variant X holding the data of the Resource<X>.
C17_SubjectAgreesWithConcreteType ==
    \A X \in SubjectType :
        (FromBody(<<"Resource", X>>) /\ ReadAs(AnySubject) /\ ReadAs(<<"Resource", X>>)) =>
            /\ ResultAs(AnySubject).ok
            /\ ResultAs(<<"Resource", X>>).ok
            /\ ResultAs(AnySubject).value.id = ResultAs(<<"Resource", X>>).value.id
            /\ ResultAs(AnySubject).value.common = ResultAs(<<"Resource", X>>).value.common
            /\ ResultAs(AnySubject).value.data.variant = X
            /\ ResultAs(AnySubject).value.data = ResultAs(<<"Resource", X>>).value.data

C17_Witness ==
    /\ FromBody(<<"Resource", "Vocabulary">>)
    /\ ReadAs(AnySubject)
    /\ ReadAs(<<"Resource", "Vocabulary">>)
    /\ ResultAs(AnySubject).ok
    /\ ResultAs(AnySubject).value.data.variant = "Vocabulary"
    /\ "hidden_at" \notin ResultAs(AnySubject).value.data.keys

\* C18: for every ordered pair of distinct types X, Y among Radical, Kanji,
\* Vocabulary and KanaVocabulary, reading a payload of type X as Resource<Y>
\* fails with a decode error and yields no value.
C18_WrongConcreteTypeIsDecodeError ==
    \A X \in SubjectType : \A Y \in SubjectType \ {X} :
        (FromBody(<<"Resource", X>>) /\ ReadAs(<<"Resource", Y>>)) =>
            /\ ~ResultAs(<<"Resource", Y>>).ok
            /\ ResultAs(<<"Resource", Y>>).error.kind = "decode"

\* C19: for every value v of Resource<Assignment>, Resource<LevelProgression>,
\* Resource<Reset>, Resource<ReviewStatistic>, Resource<StudyMaterial>, User and
\* VoiceActor, optional fields unset included, reading back what was written
\* gives v.
C19_RoundTripIsLossless ==
    \A T \in RoundTripTypes :
        (FromValue(T) /\ ReadAs(T)) => ResultAs(T) = Ok(Unwrap(prog.value))

C19_Witness ==
    /\ FromValue(<<"Resource", "Assignment">>)
    /\ Unwrap(prog.value).data.keys = RequiredKeys("Assignment") \cup {"started_at"}
    /\ Unwrap(prog.value).common.data_updated_at = None
    /\ ReadAs(<<"Resource", "Assignment">>)
    /\ Unwrap(prog.text).json.data.nulls = OptionalKeys("Assignment") \ {"started_at"}
    /\ ResultAs(<<"Resource", "Assignment">>) = Ok(Unwrap(prog.value))

\* C20: for every concrete subject type X and every value r of Resource<X>,
\* optional fields unset included, what was written of r reads back as
\* Resource<Subject> with the variant X and the id, common and payload of r.
C20_WrittenSubjectKeepsItsVariant ==
    \A X \in SubjectType :
        (FromValue(<<"Resource", X>>) /\ ReadAs(AnySubject)) =>
            /\ ResultAs(AnySubject).ok
            /\ ResultAs(AnySubject).value.data.variant = X
            /\ ResultAs(AnySubject).value = Unwrap(prog.value)

C20_Witness ==
    /\ FromValue(<<"Resource", "KanaVocabulary">>)
    /\ "hidden_at" \notin Unwrap(prog.value).data.keys
    /\ ReadAs(AnySubject)
    /\ ResultAs(AnySubject).ok
    /\ ResultAs(AnySubject).value.data.variant = "KanaVocabulary"
    /\ ResultAs(AnySubject).value = Unwrap(prog.value)

\* ---------------------------------------------------------------------------
\* The request bodies: what RequestBuilder::json writes of an UpdateUser, a
\* CreateStudyMaterial, an UpdateStudyMaterial and an AssignmentStart.  A JSON
\* object with values is a function from its keys.
\* ---------------------------------------------------------------------------

\* the fields of a struct that hold Some
SetFields(value, fields) == {k \in fields : IsSome(value[k])}

\* #[serde(rename_all = "snake_case")] enum LessonPresentationOrder
LessonPresentationOrder_to_string(order) ==
    CASE order = "AscendingLevelThenSubject" -> "ascending_level_then_subject"
      [] order = "Shuffled" -> "shuffled"
      [] order = "AscendingLevelThenShuffled" -> "ascending_level_then_shuffled"

UpdatePreferencesFields ==
    {"default_voice_actor_id", "extra_study_autoplay_audio", "lessons_autoplay_audio",
     "lessons_batch_size", "lessons_presentation_order", "reviews_autoplay_audio",
     "reviews_display_srs_indicator"}

\* a field of UpdatePreferences as JSON: a number, a bool, or the name of the order
PreferenceJson(k, v) ==
    IF k = "lessons_presentation_order" THEN LessonPresentationOrder_to_string(v) ELSE v

\* #[derive(Serialize)] UpdatePreferences writing a None as null
Serialize_UpdatePreferences_with_nulls(p) ==
    [k \in UpdatePreferencesFields |->
        IF IsSome(p[k]) THEN PreferenceJson(k, Unwrap(p[k])) ELSE "null"]

\* #[derive(Serialize)] UpdatePreferences: every field is skipped when None
Serialize_UpdatePreferences(p) ==
    [k \in SetFields(p, UpdatePreferencesFields) |-> PreferenceJson(k, Unwrap(p[k]))]

\* #[derive(Serialize)] UpdateUser
Serialize_UpdateUser(user) ==
    [preferences |-> Serialize_UpdatePreferences(user.preferences)]

StudyMaterialNotes == {"meaning_note", "reading_note", "meaning_synonyms"}

\* From<&CreateStudyMaterial> for CreateStudyMaterialCopy, and the way back
CreateStudyMaterialCopy_from(value) ==
    [subject_id |-> value.subject_id, meaning_note |-> value.meaning_note,
     reading_note |-> value.reading_note, meaning_synonyms |-> value.meaning_synonyms]

CreateStudyMaterial_from_notes_swapped(copy) ==
    [subject_id |-> copy.subject_id, meaning_note |-> copy.reading_note,
     meaning_synonyms |-> copy.meaning_synonyms, reading_note |-> copy.meaning_note]

CreateStudyMaterial_from(copy) ==
    [subject_id |-> copy.subject_id, meaning_note |-> copy.meaning_note,
     meaning_synonyms |-> copy.meaning_synonyms, reading_note |-> copy.reading_note]

\* #[derive(Serialize)] CreateStudyMaterialCopy: subject_id and the notes that are set
Serialize_CreateStudyMaterialCopy(copy) ==
    [k \in {"subject_id"} \cup SetFields(copy, StudyMaterialNotes) |->
        IF k = "subject_id" THEN copy.subject_id ELSE Unwrap(copy[k])]

\* impl Serialize for CreateStudyMaterial: the copy inside the wrapper
Serialize_CreateStudyMaterial(value) ==
    [study_material |-> Serialize_CreateStudyMaterialCopy(CreateStudyMaterialCopy_from(value))]

\* #[derive(Deserialize)] CreateStudyMaterialCopy: a missing Option is None
Deserialize_CreateStudyMaterialCopy(j) ==
    [k \in {"subject_id"} \cup StudyMaterialNotes |->
        IF k = "subject_id" THEN j.subject_id
        ELSE IF k \in DOMAIN j THEN Some(j[k]) ELSE None]

\* impl Deserialize for CreateStudyMaterial
Deserialize_CreateStudyMaterial(j) ==
    IF "study_material" \in DOMAIN j /\ "subject_id" \in DOMAIN j.study_material
    THEN Ok(CreateStudyMaterial_from(Deserialize_CreateStudyMaterialCopy(j.study_material)))
    ELSE Err([kind |-> "decode", text |-> "json"])

\* serde_helpers::UpdateStudyMaterialWrapper: the notes that are set, wrapped
Serialize_UpdateStudyMaterial(value) ==
    [study_material |->
        [k \in SetFields(value, StudyMaterialNotes) |-> Unwrap(value[k])]]

\* #[derive(Serialize)] AssignmentStart: started_at is skipped when None
Serialize_AssignmentStart(body) ==
    [k \in SetFields(body, {"started_at"}) |-> to_rfc3339(Unwrap(body[k]))]

\* ---------------------------------------------------------------------------
\* The endpoint methods (client/*.rs): the request each one builds.
\* ---------------------------------------------------------------------------

\* RequestBuilder::json: the body, and its Content-Type
WithJson(req, body) ==
    WithHeader([req EXCEPT !.body = Some(body)], "content-type", <<"application/json">>)

\* a list method: the resource path pushed on a copy of the base URL, the filter applied
get_assignments(this, filters) ==
    Request("GET", AssignmentFilter_apply_filters(filters, push(this.base_url, "assignments")))
get_level_progressions(this, filters) ==
    Request("GET", IdFilter_apply_filters(filters, push(this.base_url, "level_progressions")))
get_resets(this, filters) ==
    Request("GET", IdFilter_apply_filters(filters, push(this.base_url, "resets")))
get_review_statistics(this, filters) ==
    Request("GET", ReviewStatisticFilter_apply_filters(
                       filters, push(this.base_url, "review_statistics")))
get_study_materials(this, filters) ==
    Request("GET", StudyMaterialFilter_apply_filters(
                       filters, push(this.base_url, "study_materials")))
get_voice_actors(this, filters) ==
    Request("GET", IdFilter_apply_filters(filters, push(this.base_url, "voice_actors")))

\* a get-by-id method: the resource path and the id
get_specific_on_base_url(this, path, id) == Request("GET", push(this.base_url, ToString(id)))
get_specific(this, path, id) ==
    Request("GET", push(push(this.base_url, path), ToString(id)))
get_specific_assignment(this, id) == get_specific(this, "assignments", id)
get_specific_level_progression(this, id) == get_specific(this, "level_progressions", id)
get_specific_reset(this, id) == get_specific(this, "resets", id)
get_specific_review_statistic(this, id) == get_specific(this, "review_statistics", id)
get_specific_study_material(this, id) == get_specific(this, "study_materials", id)
get_specific_voice_actor(this, id) == get_specific(this, "voice_actors", id)

get_user_information(this) == Request("GET", push(this.base_url, "user"))

\* the methods that send a body
update_user_information(this, user) ==
    WithJson(Request("PUT", push(this.base_url, "user")), Serialize_UpdateUser(user))
create_study_material(this, material) ==
    WithJson(Request("POST", push(this.base_url, "study_materials")),
             Serialize_CreateStudyMaterial(material))
update_study_material(this, id, material) ==
    WithJson(Request("PUT", push(push(this.base_url, "study_materials"), ToString(id))),
             Serialize_UpdateStudyMaterial(material))
start_assignment(this, id, body) ==
    WithJson(Request("PUT", push(push(push(this.base_url, "assignments"), ToString(id)),
                                 "start")),
             Serialize_AssignmentStart(body))

\* the methods by their shape, and the filter type and the path of each
ListMethods ==
    {"get_assignments", "get_level_progressions", "get_resets", "get_review_statistics",
     "get_study_materials", "get_subjects", "get_voice_actors"}
SpecificMethods ==
    {"get_specific_assignment", "get_specific_level_progression", "get_specific_reset",
     "get_specific_review_statistic", "get_specific_study_material",
     "get_specific_subject", "get_specific_voice_actor"}
PlainMethods == {"get_summary", "get_user_information"}
BodyMethods ==
    {"update_user_information", "create_study_material", "update_study_material",
     "start_assignment"}

FilterKindOf(method) ==
    CASE method = "get_assignments" -> "AssignmentFilter"
      [] method = "get_review_statistics" -> "ReviewStatisticFilter"
      [] method = "get_study_materials" -> "StudyMaterialFilter"
      [] method = "get_subjects" -> "SubjectFilter"
      [] OTHER -> "IdFilter"

\* the payload type of each method's result
PayloadOfMethod(method) ==
    CASE method \in {"get_assignments", "get_specific_assignment", "start_assignment"} ->
            "Assignment"
      [] method \in {"get_level_progressions", "get_specific_level_progression"} ->
            "LevelProgression"
      [] method \in {"get_resets", "get_specific_reset"} -> "Reset"
      [] method \in {"get_review_statistics", "get_specific_review_statistic"} ->
            "ReviewStatistic"
      [] method \in {"get_study_materials", "get_specific_study_material",
                     "create_study_material", "update_study_material"} -> "StudyMaterial"
      [] method \in {"get_subjects", "get_specific_subject"} -> "Subject"
      [] method \in {"get_voice_actors", "get_specific_voice_actor"} -> "VoiceActor"

\* the type each method asks do_request for
EndpointType(method) ==
    IF method = "get_summary" THEN <<"Summary">>
    ELSE IF method \in {"get_user_information", "update_user_information"} THEN <<"User">>
    ELSE IF method \in ListMethods THEN <<"Collection", PayloadOfMethod(method)>>
    ELSE <<"Resource", PayloadOfMethod(method)>>

\* the name each method gives do_request
EndpointCaller(method) ==
    CASE method = "get_review_statistics" -> "get_resets"
      [] method = "get_specific_review_statistic" -> "get_specific_reset"
      [] method = "get_study_materials" -> "get_subjects"
      [] method = "get_specific_study_material" -> "get_specific_subject"
      [] OTHER -> method

NoArgs == [id |-> None, filter |-> None, body |-> None]

\* the request a method builds of its arguments
EndpointRequest(this, method, args) ==
    CASE method = "get_assignments" -> get_assignments(this, Unwrap(args.filter))
      [] method = "get_level_progressions" ->
            get_level_progressions(this, Unwrap(args.filter))
      [] method = "get_resets" -> get_resets(this, Unwrap(args.filter))
      [] method = "get_review_statistics" ->
            get_review_statistics(this, Unwrap(args.filter))
      [] method = "get_study_materials" -> get_study_materials(this, Unwrap(args.filter))
      [] method = "get_subjects" -> get_subjects(this, Unwrap(args.filter))
      [] method = "get_voice_actors" -> get_voice_actors(this, Unwrap(args.filter))
      [] method = "get_specific_assignment" ->
            get_specific_assignment(this, Unwrap(args.id))
      [] method = "get_specific_level_progression" ->
            get_specific_level_progression(this, Unwrap(args.id))
      [] method = "get_specific_reset" -> get_specific_reset(this, Unwrap(args.id))
      [] method = "get_specific_review_statistic" ->
            get_specific_review_statistic(this, Unwrap(args.id))
      [] method = "get_specific_study_material" ->
            get_specific_study_material(this, Unwrap(args.id))
      [] method = "get_specific_subject" -> get_specific_subject(this, Unwrap(args.id))
      [] method = "get_specific_voice_actor" ->
            get_specific_voice_actor(this, Unwrap(args.id))
      [] method = "get_summary" -> get_summary(this)
      [] method = "get_user_information" -> get_user_information(this)
      [] method = "update_user_information" ->
            update_user_information(this, Unwrap(args.body))
      [] method = "create_study_material" ->
            create_study_material(this, Unwrap(args.body))
      [] method = "update_study_material" ->
            update_study_material(this, Unwrap(args.id), Unwrap(args.body))
      [] method = "start_assignment" ->
            start_assignment(this, Unwrap(args.id), Unwrap(args.body))

\* the arguments callers pass: the default filter, and each field given a value
FieldExample(field) ==
    IF field \in NumberListFields THEN Some(<<2, 1>>)
    ELSE IF field \in TypeListFields THEN Some(<<"Radical", "KanaVocabulary">>)
    ELSE IF field \in SlugListFields THEN Some(<<"ground">>)
    ELSE IF field \in TriStateFields THEN Some(FALSE)
    ELSE IF field \in FlagFields THEN TRUE
    ELSE IF field \in TimeFields THEN Some(Instant1500000000)
    ELSE Some(100)
OneFieldFilters(kind) ==
    {FilterDefault(kind)} \cup
    {[FilterDefault(kind) EXCEPT ![a] = FieldExample(a)] : a \in DOMAIN FilterDefault(kind)}

\* an UpdateUser: each field of its preferences unset or set
UpdateUsers ==
    {[preferences |->
         [default_voice_actor_id |-> voice, extra_study_autoplay_audio |-> extra,
          lessons_autoplay_audio |-> lessons, lessons_batch_size |-> size,
          lessons_presentation_order |-> order, reviews_autoplay_audio |-> reviews,
          reviews_display_srs_indicator |-> indicator]] :
        voice \in {None, Some(1), Some(2)}, extra \in {None, Some(TRUE)},
        lessons \in {None, Some(FALSE)}, size \in {None, Some(5)},
        order \in {None, Some("Shuffled"), Some("AscendingLevelThenSubject")},
        reviews \in {None, Some(TRUE)}, indicator \in {None, Some(FALSE)}}

\* a CreateStudyMaterial and an UpdateStudyMaterial: each note unset or set
CreateStudyMaterials ==
    {[subject_id |-> id, meaning_note |-> meaning, reading_note |-> reading,
      meaning_synonyms |-> synonyms] :
        id \in 1..MaxId, meaning \in {None, Some("Meaning")},
        reading \in {None, Some("reading")},
        synonyms \in {None, Some(<<>>), Some(<<"double">>)}}
UpdateStudyMaterials ==
    {[meaning_note |-> meaning, reading_note |-> reading, meaning_synonyms |-> synonyms] :
        meaning \in {None, Some("Meaning")}, reading \in {None, Some("reading")},
        synonyms \in {None, Some(<<>>), Some(<<"double">>)}}
AssignmentStarts == {[started_at |-> at] : at \in {None, Some(Epoch), Some(Instant1500000000)}}

\* what the transport answers in this part: a summary, a user, an API error,
\* a rate limit, and a body that is no JSON
UserJson ==
    [object |-> "user", url |-> push(URL_BASE, "user"),
     data_updated_at |-> Some(Instant1500000000), data |-> JsonObject(PayloadKeys("UserData"))]
EndpointResponses ==
    {Response(StatusOK, <<>>, JsonBody(SummaryJson)),
     Response(StatusOK, <<>>, JsonBody(UserJson)),
     Response(StatusOK, <<>>, [text |-> "malformed"]),
     Response(401, <<>>, JsonBody(ErrorJson(401, None))),
     Response(TOO_MANY_REQUESTS, ResetHeader(Digits(<<1,5,0,0,0,0,0,0,0,0>>)), RateLimitBody)}

\* a call of a method: the request it builds is handed to do_request
CallEndpoint(method, args) ==
    /\ Begin(EndpointCaller(method), EndpointType(method),
             EndpointRequest(self, method, args))
    /\ prog' = [name |-> "endpoint", method |-> method, args |-> args]
    /\ UNCHANGED server

CallList(method, filter) ==
    CallEndpoint(method, [NoArgs EXCEPT !.filter = Some(filter)])
CallSpecific(method, id) ==
    CallEndpoint(method, [NoArgs EXCEPT !.id = Some(id)])
CallPlain(method) == CallEndpoint(method, NoArgs)
UpdateUserInformation(user) ==
    CallEndpoint("update_user_information", [NoArgs EXCEPT !.body = Some(user)])
CreateStudyMaterial(material) ==
    CallEndpoint("create_study_material", [NoArgs EXCEPT !.body = Some(material)])
UpdateStudyMaterial(id, material) ==
    CallEndpoint("update_study_material",
                 [NoArgs EXCEPT !.id = Some(id), !.body = Some(material)])
StartAssignment(id, body) ==
    CallEndpoint("start_assignment", [NoArgs EXCEPT !.id = Some(id), !.body = Some(body)])

\* the caller drops the future of a call before the answer: the call is gone
Abandon ==
    /\ pc = "awaiting"
    /\ pc' = "idle"
    /\ UNCHANGED <<overflow_checks, self, call, wire, net, outcome, now, server, prog>>

InitEndpoints ==
    /\ overflow_checks \in BOOLEAN
    /\ self = new("MY_TOKEN")
    /\ pc = "idle"
    /\ call = NoCall
    /\ wire = <<>>
    /\ net = None
    /\ outcome = None
    /\ now = 0
    /\ server = NoServer
    /\ prog = [name |-> "endpoint", method |-> "", args |-> NoArgs]

NextEndpoints ==
    \/ \E method \in ListMethods : \E filter \in OneFieldFilters(FilterKindOf(method)) :
          CallList(method, filter)
    \/ \E method \in SpecificMethods : \E id \in 1..MaxId : CallSpecific(method, id)
    \/ \E method \in PlainMethods : CallPlain(method)
    \/ \E user \in UpdateUsers : UpdateUserInformation(user)
    \/ \E material \in CreateStudyMaterials : CreateStudyMaterial(material)
    \/ \E id \in 1..MaxId : \E material \in UpdateStudyMaterials :
          UpdateStudyMaterial(id, material)
    \/ \E id \in 1..MaxId : \E body \in AssignmentStarts : StartAssignment(id, body)
    \/ \E e \in SendErrors : SendFails(e)
    \/ \E r \in EndpointResponses : Respond(r)
    \/ Abandon

SpecEndpoints == InitEndpoints /\ [][NextEndpoints]_vars

\* What the claims about the endpoints speak of: the method last called, the
\* request it handed to the transport, and the body of that request.
Called(method) == prog.name = "endpoint" /\ prog.method = method /\ Len(wire) = 1
AnyCalled == prog.name = "endpoint" /\ prog.method # "" /\ Len(wire) = 1
TheBody == Unwrap(wire[1].body)
GivenBody == Unwrap(prog.args.body)

\* C21: the body of update_user_information is an object with the single key
\* preferences, whose object holds exactly the fields of UpdatePreferences that
\* are set, each with its value; an unset field is absent, not null.
C21_UpdateUserBodyHoldsOnlySetFields ==
    Called("update_user_information") =>
        /\ IsSome(wire[1].body)
        /\ DOMAIN TheBody = {"preferences"}
        /\ DOMAIN TheBody.preferences =
               {k \in UpdatePreferencesFields : GivenBody.preferences[k] # None}
        /\ \A k \in DOMAIN TheBody.preferences :
               TheBody.preferences[k] =
                   IF k = "lessons_presentation_order"
                   THEN LessonPresentationOrder_to_string(Unwrap(GivenBody.preferences[k]))
                   ELSE Unwrap(GivenBody.preferences[k])

C21_Witness ==
    /\ Called("update_user_information")
    /\ GivenBody.preferences.lessons_presentation_order = Some("AscendingLevelThenSubject")
    /\ \A k \in UpdatePreferencesFields \ {"lessons_presentation_order"} :
           GivenBody.preferences[k] = None
    /\ TheBody =
           [preferences |-> [lessons_presentation_order |-> "ascending_level_then_subject"]]

\* C22: a CreateStudyMaterial is written as an object with the single key
\* study_material, whose object holds subject_id and exactly those of
\* meaning_note, reading_note and meaning_synonyms that are set; reading that
\* object back gives the original value.
C22_CreateStudyMaterialEnvelope ==
    Called("create_study_material") =>
        /\ IsSome(wire[1].body)
        /\ DOMAIN TheBody = {"study_material"}
        /\ DOMAIN TheBody.study_material =
               {"subject_id"} \cup {k \in StudyMaterialNotes : GivenBody[k] # None}
        /\ TheBody.study_material.subject_id = GivenBody.subject_id
        /\ \A k \in DOMAIN TheBody.study_material \ {"subject_id"} :
               TheBody.study_material[k] = Unwrap(GivenBody[k])
        /\ Deserialize_CreateStudyMaterial(TheBody) = Ok(GivenBody)

C22_Witness ==
    /\ Called("create_study_material")
    /\ GivenBody = [subject_id |-> 2, meaning_note |-> Some("Meaning"),
                    reading_note |-> None, meaning_synonyms |-> None]
    /\ TheBody = [study_material |-> [subject_id |-> 2, meaning_note |-> "Meaning"]]
    /\ Deserialize_CreateStudyMaterial(TheBody) = Ok(GivenBody)

\* the method, the path after /v2 and the query the claim gives each endpoint
ClaimedMethod(method) ==
    CASE method \in {"update_user_information", "update_study_material", "start_assignment"} ->
            "PUT"
      [] method = "create_study_material" -> "POST"
      [] OTHER -> "GET"
ClaimedResource(method) ==
    CASE method \in {"get_assignments", "get_specific_assignment", "start_assignment"} ->
            "assignments"
      [] method \in {"get_level_progressions", "get_specific_level_progression"} ->
            "level_progressions"
      [] method \in {"get_resets", "get_specific_reset"} -> "resets"
      [] method \in {"get_review_statistics", "get_specific_review_statistic"} ->
            "review_statistics"
      [] method \in {"get_study_materials", "get_specific_study_material",
                     "create_study_material", "update_study_material"} -> "study_materials"
      [] method \in {"get_subjects", "get_specific_subject"} -> "subjects"
      [] method \in {"get_voice_actors", "get_specific_voice_actor"} -> "voice_actors"
      [] method = "get_summary" -> "summary"
      [] method \in {"get_user_information", "update_user_information"} -> "user"
ClaimedPath(method, args) ==
    <<"v2", ClaimedResource(method)>>
    \o (IF IsSome(args.id) THEN <<ToString(Unwrap(args.id))>> ELSE <<>>)
    \o (IF method = "start_assignment" THEN <<"start">> ELSE <<>>)
NoUrl == [origin |-> "", path |-> <<>>, query |-> <<>>]
ClaimedQuery(method, args) ==
    IF method \notin ListMethods THEN <<>>
    ELSE CASE FilterKindOf(method) = "IdFilter" ->
                 IdFilter_apply_filters(Unwrap(args.filter), NoUrl).query
           [] FilterKindOf(method) = "SubjectFilter" ->
                 SubjectFilter_apply_filters(Unwrap(args.filter), NoUrl).query
           [] FilterKindOf(method) = "StudyMaterialFilter" ->
                 StudyMaterialFilter_apply_filters(Unwrap(args.filter), NoUrl).query
           [] FilterKindOf(method) = "AssignmentFilter" ->
                 AssignmentFilter_apply_filters(Unwrap(args.filter), NoUrl).query
           [] FilterKindOf(method) = "ReviewStatisticFilter" ->
                 ReviewStatisticFilter_apply_filters(Unwrap(args.filter), NoUrl).query

\* C23: each endpoint method sends its own HTTP method to the fixed base URL
\* https://api.wanikani.com/v2 followed by its resource path (and the id, and
\* "start"), a list method with its filter's query and every other with none;
\* the client's stored base URL is not altered.
C23_EndpointMethodAndUrl ==
    AnyCalled =>
        /\ wire[1].method = ClaimedMethod(prog.method)
        /\ wire[1].url.origin = "https://api.wanikani.com"
        /\ wire[1].url.path = ClaimedPath(prog.method, prog.args)
        /\ wire[1].url.query = ClaimedQuery(prog.method, prog.args)
        /\ self.base_url =
               [origin |-> "https://api.wanikani.com", path |-> <<"v2">>, query |-> <<>>]

C23_Witness ==
    /\ Called("start_assignment")
    /\ wire[1].method = "PUT"
    /\ wire[1].url = [origin |-> "https://api.wanikani.com",
                      path |-> <<"v2", "assignments", "2", "start">>, query |-> <<>>]
    /\ self.base_url.path = <<"v2">>


\* C26: no operation changes the client.  Through every step (a call begun,
\* answered with success, an API error, a rate-limit error or a transport
\* error, or abandoned before its answer) base_url, token and version keep
\* their values at construction, and the request of every call is the one a
\* freshly constructed client builds for the same method and arguments.
C26_NoOperationChangesTheClient ==
    /\ [][self' = self]_vars
    /\ [](/\ self.base_url = URL_BASE
          /\ self.token = "MY_TOKEN"
          /\ self.version = API_VERSION)
    /\ [](AnyCalled =>
             wire[1] = do_request_send(new("MY_TOKEN"), EndpointCaller(prog.method),
                           EndpointRequest(new("MY_TOKEN"), prog.method, prog.args)))

\* a call was abandoned before its answer and the client is as constructed
C26_Witness ==
    /\ AnyCalled
    /\ pc = "idle"
    /\ net = None
    /\ self = new("MY_TOKEN")


(***************************************************************************)
(* Several tasks on one client.  Every method borrows the client shared    *)
(* (&self), so any number of calls may be under way at once; each call is  *)
(* a future of its own whose locals (the cloned Url, the RequestBuilder,   *)
(* the Response) belong to it.  Here pc, call, wire, net and outcome hold  *)
(* one value per task, and a call advances in four steps that interleave   *)
(* freely with the steps of the other tasks: the endpoint method builds    *)
(* the request, do_request adds the headers and sends, send() gives its    *)
(* answer, do_request turns the answer into the result.                    *)
(***************************************************************************)
Tasks == {1, 2}
TaskMethods == {"get_summary", "get_specific_subject", "get_specific_assignment"}
TaskArgs(method) ==
    IF method \in SpecificMethods
    THEN {[NoArgs EXCEPT !.id = Some(id)] : id \in 1..MaxId}
    ELSE {NoArgs}
NoTaskCall == [method |-> "", args |-> NoArgs]

\* the endpoint method up to its call of do_request: the request is built
\* from a clone of self.base_url
TaskCall_in_place(t, method, args) ==
    /\ pc[t] \in {"idle", "returned"}
    /\ call' = [call EXCEPT ![t] = [caller |-> EndpointCaller(method),
                                     T |-> EndpointType(method),
                                     req |-> EndpointRequest(self, method, args)]]
    /\ self' = [self EXCEPT !.base_url = EndpointRequest(self, method, args).url]
    /\ prog' = [prog EXCEPT !.calls[t] = [method |-> method, args |-> args]]
    /\ pc' = [pc EXCEPT ![t] = "built"]
    /\ wire' = [wire EXCEPT ![t] = <<>>]
    /\ net' = [net EXCEPT ![t] = None]
    /\ outcome' = [outcome EXCEPT ![t] = None]
    /\ UNCHANGED <<overflow_checks, now, server>>

TaskCall(t, method, args) ==
    /\ pc[t] \in {"idle", "returned"}
    /\ call' = [call EXCEPT ![t] = [caller |-> EndpointCaller(method),
                                     T |-> EndpointType(method),
                                     req |-> EndpointRequest(self, method, args)]]
    /\ prog' = [prog EXCEPT !.calls[t] = [method |-> method, args |-> args]]
    /\ pc' = [pc EXCEPT ![t] = "built"]
    /\ wire' = [wire EXCEPT ![t] = <<>>]
    /\ net' = [net EXCEPT ![t] = None]
    /\ outcome' = [outcome EXCEPT ![t] = None]
    /\ UNCHANGED <<overflow_checks, self, now, server>>

\* do_request: add_required_headers, then req.send()
TaskSend(t) ==
    /\ pc[t] = "built"
    /\ wire' = [wire EXCEPT ![t] = <<do_request_send(self, call[t].caller, call[t].req)>>]
    /\ pc' = [pc EXCEPT ![t] = "awaiting"]
    /\ UNCHANGED <<overflow_checks, self, call, net, outcome, now, server, prog>>

\* send() resolves for this task's request: a transport failure or a response
TaskAnswer(t, answer) ==
    /\ pc[t] = "awaiting"
    /\ net' = [net EXCEPT ![t] = Some(answer)]
    /\ pc' = [pc EXCEPT ![t] = "answered"]
    /\ UNCHANGED <<overflow_checks, self, call, wire, outcome, now, server, prog>>
TaskSendFails(t, error) == TaskAnswer(t, Failure(error))
TaskRespond(t, response) == TaskAnswer(t, Answer(response))

\* do_request from the answer on: `?`, resp.json() or handle_error
TaskFinish(t) ==
    /\ pc[t] = "answered"
    /\ outcome' = [outcome EXCEPT
           ![t] = Some(do_request(self, call[t].caller, call[t].T, Unwrap(net[t])))]
    /\ pc' = [pc EXCEPT ![t] = "returned"]
    /\ UNCHANGED <<overflow_checks, self, call, wire, net, now, server, prog>>

InitTasks ==
    /\ overflow_checks \in BOOLEAN
    /\ self = new("MY_TOKEN")
    /\ pc = [t \in Tasks |-> "idle"]
    /\ call = [t \in Tasks |-> NoCall]
    /\ wire = [t \in Tasks |-> <<>>]
    /\ net = [t \in Tasks |-> None]
    /\ outcome = [t \in Tasks |-> None]
    /\ now = 0
    /\ server = NoServer
    /\ prog = [name |-> "tasks", calls |-> [t \in Tasks |-> NoTaskCall]]

NextTasks ==
    \/ \E t \in Tasks : \E method \in TaskMethods : \E args \in TaskArgs(method) :
          TaskCall(t, method, args)
    \/ \E t \in Tasks : TaskSend(t)
    \/ \E t \in Tasks : \E e \in SendErrors : TaskSendFails(t, e)
    \/ \E t \in Tasks : \E r \in EndpointResponses : TaskRespond(t, r)
    \/ \E t \in Tasks : TaskFinish(t)

SpecTasks == InitTasks /\ [][NextTasks]_vars

\* the request and the result the call of task t has when it runs alone, on a
\* client no other call touches, with the same answer from the server
AloneRequest(t) ==
    do_request_send(new("MY_TOKEN"), EndpointCaller(prog.calls[t].method),
        EndpointRequest(new("MY_TOKEN"), prog.calls[t].method, prog.calls[t].args))
AloneResult(t) ==
    do_request(new("MY_TOKEN"), EndpointCaller(prog.calls[t].method),
        EndpointType(prog.calls[t].method), Unwrap(net[t]))
\* the data of the call of task t
TaskData(t) == <<pc[t], call[t], wire[t], net[t], outcome[t], prog.calls[t]>>

\* C24: under every interleaving of the calls of several tasks on one client,
\* the request each call sends and the result it returns are those of the same
\* call run alone with the same answer, and a step of one task leaves the data
\* of every other task's call as it was.
C24_ConcurrentCallsAreIndependent ==
    /\ [](\A t \in Tasks :
             /\ pc[t] \in {"awaiting", "answered", "returned"} =>
                    wire[t] = <<AloneRequest(t)>>
             /\ pc[t] = "returned" => outcome[t] = Some(AloneResult(t)))
    /\ [][\A t \in Tasks : pc'[t] # pc[t] =>
              \A u \in Tasks \ {t} : TaskData(u)' = TaskData(u)]_vars

\* both calls are answered while the other was under way, for different
\* resources and with different results
C24_Witness ==
    /\ pc[1] = "returned" /\ pc[2] = "returned"
    /\ prog.calls[1].method = "get_specific_subject"
    /\ prog.calls[2].method = "get_summary"
    /\ wire[1][1].url.path = <<"v2", "subjects", "2">>
    /\ wire[2][1].url.path = <<"v2", "summary">>
    /\ ~Unwrap(outcome[1]).value.ok
    /\ Unwrap(outcome[2]).value.ok


\* the text at hand is a JSON object whose data is an object holding these keys
TextHasData ==
    /\ prog.name = "serde"
    /\ IsSome(prog.text)
    /\ Unwrap(prog.text).text = "json"
    /\ "data" \in DOMAIN Unwrap(prog.text).json
    /\ Unwrap(prog.text).json.data.kind = "object"
TextKeys == Unwrap(prog.text).json.data.keys \ Unwrap(prog.text).json.data.nulls
TrialOrder == <<"Radical", "Kanji", "Vocabulary", "KanaVocabulary">>
Fitting == {i \in 1..4 : RequiredKeys(TrialOrder[i]) \subseteq TextKeys}

Retagged(tag) == [Unwrap(prog.text) EXCEPT !.json.object = tag]

\* C28: no read of Resource<T> compares the object tag with the payload: the
\* same body under any other valid tag is read with the same outcome and the
\* same data (for Resource<Subject> the same variant), and the tag is returned
\* as common.object whatever the data is.
C28_TagIsNotChecked ==
    \A T \in SerdeTypes \ {<<"User">>} :
        (TextHasData /\ ReadAs(T)) =>
            \A tag \in ResourceTypes :
                /\ from_str(T, Retagged(tag)).ok = ResultAs(T).ok
                /\ ResultAs(T).ok =>
                      /\ from_str(T, Retagged(tag)).value.data = ResultAs(T).value.data
                      /\ from_str(T, Retagged(tag)).value.common.object = tag
                      /\ ResultAs(T).value.common.object = Unwrap(prog.text).json.object

\* a resource tagged radical is returned with the data of a kanji
C28_Witness ==
    /\ TextHasData
    /\ Unwrap(prog.text).json.object = "radical"
    /\ ReadAs(AnySubject)
    /\ ResultAs(AnySubject).ok
    /\ ResultAs(AnySubject).value.common.object = "radical"
    /\ ResultAs(AnySubject).value.data.variant = "Kanji"


\* C27: a list-valued field set to the empty list is not unset: apply_filters
\* gives its key once, with the empty value, where the field left None gives
\* nothing with its key; so the query is empty only if every list field is None.
C27_EmptyListIsNotUnset ==
    Applied =>
        /\ \A field \in FieldsOf(ListFields) :
              /\ prog.filter[field] = Some(<<>>) =>
                     /\ Cardinality(KeyAt(field)) = 1
                     /\ ValueOf(field) = Some(<<>>)
              /\ prog.filter[field] = None => KeyAt(field) = {}
        /\ prog.url.query = <<>> =>
              \A field \in FieldsOf(ListFields) : prog.filter[field] = None

C27_Witness ==
    /\ Applied
    /\ prog.kind = "SubjectFilter"
    /\ prog.filter = [SubjectFilter_default EXCEPT !.levels = Some(<<>>)]
    /\ prog.url.query = << [key |-> "levels", value |-> Some(<<>>)] >>


\* C29: get_resource_by_url does not look at the origin of the URL it is
\* given: the request goes to that URL's origin, the API's own or not, and
\* carries the client's bearer token.
C29_TokenGoesToAnyOrigin ==
    (prog.name = "any" /\ call.caller = "get_resource_by_url" /\ pc # "idle") =>
        /\ Len(wire) = 1
        /\ wire[1].url.origin = Unwrap(prog.given).origin
        /\ HeaderGet(wire[1].headers, "authorization") = Some(<<"Bearer", self.token>>)

\* the token was sent to an origin that is not the API's
C29_Witness ==
    /\ prog.name = "any"
    /\ call.caller = "get_resource_by_url"
    /\ pc = "awaiting"
    /\ self.token = "MY_TOKEN"
    /\ Unwrap(prog.given).origin = "https://example.org"
    /\ wire[1].url.origin = "https://example.org"
    /\ self.base_url.origin = "https://api.wanikani.com"
    /\ HeaderGet(wire[1].headers, "authorization") = Some(<<"Bearer", "MY_TOKEN">>)


(***************************************************************************)
(* LessonPresentationOrder::order_subjects (lib.rs), the comparison that   *)
(* examples/sort_subjects.rs sorts the subjects of a level range by.  The  *)
(* random generator is the sequence of the u32 it will give next.          *)
(***************************************************************************)
MaxLevel == 2
MaxPosition == 1
MaxDraw == 1

\* Ord::cmp
cmp(a, b) == IF a < b THEN "Less" ELSE IF a = b THEN "Equal" ELSE "Greater"

\* rng.gen::<u32>().cmp(&rng.gen()): two values are drawn, the receiver first
gen_cmp(rng) == [ordering |-> cmp(rng[1], rng[2]), rng |-> SubSeq(rng, 3, Len(rng))]

\* order_subjects: the Ordering, and the generator as the call leaves it
order_subjects(this, rng, subject, other) ==
    CASE this = "AscendingLevelThenSubject" ->
            [ordering |-> IF cmp(subject.level, other.level) = "Equal"
                          THEN cmp(subject.lesson_position, other.lesson_position)
                          ELSE cmp(subject.level, other.level),
             rng |-> rng]
      [] this = "AscendingLevelThenShuffled" ->
            IF cmp(subject.level, other.level) = "Equal"
            THEN gen_cmp(rng)
            ELSE [ordering |-> cmp(subject.level, other.level), rng |-> rng]
      [] this = "Shuffled" -> gen_cmp(rng)

LessonPresentationOrders ==
    {"AscendingLevelThenSubject", "Shuffled", "AscendingLevelThenShuffled"}
\* a subject as get_subjects returns it: the id of the resource, and of its
\* SubjectCommon the two fields the orders read
OrderedSubjects ==
    {[id |-> id, common |-> [level |-> level, lesson_position |-> position]] :
        id \in 1..MaxId, level \in 1..MaxLevel, position \in 0..MaxPosition}
Generators == [1..2 -> 0..MaxDraw]

\* one comparison of the sort: the closure hands the commons of two subjects
\* to the order
OrderSubjects ==
    /\ prog.at = "given"
    /\ prog' = [prog EXCEPT
           !.at = "compared",
           !.result = Some(order_subjects(prog.order, prog.rng,
                                          prog.subject.common, prog.other.common))]
    /\ UNCHANGED <<overflow_checks, self, pc, call, wire, net, outcome, now, server>>

InitOrder ==
    /\ overflow_checks \in BOOLEAN
    /\ self = new("MY_TOKEN")
    /\ pc = "idle"
    /\ call = NoCall
    /\ wire = <<>>
    /\ net = None
    /\ outcome = None
    /\ now = 0
    /\ server = NoServer
    /\ \E order \in LessonPresentationOrders : \E rng \in Generators :
       \E subject \in OrderedSubjects : \E other \in OrderedSubjects :
          /\ subject.id # other.id
          /\ prog = [name |-> "order_subjects", at |-> "given", order |-> order,
                     rng |-> rng, subject |-> subject, other |-> other, result |-> None]

NextOrder == OrderSubjects

SpecOrder == InitOrder /\ [][NextOrder]_vars

Compared(order) ==
    prog.name = "order_subjects" /\ prog.at = "compared" /\ prog.order = order

\* C30: under AscendingLevelThenSubject two subjects of different levels
\* compare by level, two subjects of the same level compare by their subject
\* id, and the random generator is not used.
C30_AscendingLevelThenSubjectId ==
    Compared("AscendingLevelThenSubject") =>
        /\ prog.subject.common.level # prog.other.common.level =>
              Unwrap(prog.result).ordering =
                  cmp(prog.subject.common.level, prog.other.common.level)
        /\ prog.subject.common.level = prog.other.common.level =>
              Unwrap(prog.result).ordering = cmp(prog.subject.id, prog.other.id)
        /\ Unwrap(prog.result).rng = prog.rng

=============================================================================
